---- MODULE Spec2Model ----
(***************************************************************************)
(* Model of the lumped-capacitance analysis of qiskit-metal                *)
(* (qiskit_metal/analyses/quantization/lumped_capacitive.py):              *)
(*   - extract_transmon_coupled_Noscillator, the circuit-parameter reducer *)
(*   - levels_vs_ng_real_units, the charge-basis level solver              *)
(*   - move_index_to / df_reorder_matrix_basis, the basis reorderer        *)
(*   - readin_q3d_matrix, the reader of a Q3D capacitance-matrix export    *)
(*   - chi, the dispersive shift, called directly                          *)
(*   - get_C_and_Ic / cos_to_mega_and_delta, the parameter fitter          *)
(* and of kidx of qiskit_metal/analyses/hamiltonian/transmon_analytics.py. *)
(* Arrays keep the 0-based indices of the source: an array of length n is  *)
(* a function on 0..n-1.  Python lists passed as arguments are sequences   *)
(* (1-based), so the source's fb[ii - 1] is fb.l[ii] here.                 *)
(* Floating-point quantities are kept exact: integers in a stated unit, or *)
(* rationals <<numerator, denominator>>.                                   *)
(***************************************************************************)
EXTENDS Integers, Sequences, FiniteSets, TLC

VARIABLES
    rin,    \* reducer: the arguments of one call
    rout,   \* reducer: position, exception, locals and ham_dict of that call
    rtwo,   \* reducer: the ham_dict of a second call by the same caller
    sin,    \* solver: the arguments of one call of levels_vs_ng_real_units
    sst,    \* solver: position in the loop, levels table, results
    bin,    \* reorderer: the arguments of one call of df_reorder_matrix_basis
    bout,   \* reorderer: position, exception, returned table, round trip
    qin,    \* Q3D reader: the text of the file of one call of readin_q3d_matrix
    qout,   \* Q3D reader: position, exception, returned tuple
    cin,    \* chi: the arguments of one direct call
    cout,   \* chi: position, exception, returned value
    kin,    \* kidx: the arguments m and my_ng of one call
    kout,   \* kidx: position, returned index
    fin,    \* fitter: the arguments of one call of get_C_and_Ic
    fst,    \* fitter: position, the optimizer's state, the returned point
    pin,    \* periodic extension: the values of the Mathieu function
    pst,    \* periodic extension: position, the raw and the periodic lists
    tenv,   \* component table: the design's components, the table view
    tmod,   \* component table: the model's cache, signals, last result
    uin,    \* BaseQubit: the arguments of one construction, the template
    ust     \* BaseQubit: position, options, calls made

vars ==
    <<rin, rout, rtwo, sin, sst, bin, bout, qin, qout, cin, cout, kin, kout,
      fin, fst, pin, pst, tenv, tmod, uin, ust>>

readerVars == <<qin, qout>>

chiVars == <<cin, cout>>

kidxVars == <<kin, kout>>

fitVars == <<fin, fst>>

periodicVars == <<pin, pst>>

tableVars == <<tenv, tmod>>

qubitVars == <<uin, ust>>

\* the variables of the utility routines
utilVars ==
    <<readerVars, chiVars, kidxVars, fitVars, periodicVars, tableVars, qubitVars>>

----------------------------------------------------------------------------
(* Bounds of the model *)

\* largest number of coupling ports N passed to the reducer
MaxPorts == 3

----------------------------------------------------------------------------
(* Small helpers *)

Min(a, b) == IF a < b THEN a ELSE b

Max(a, b) == IF a > b THEN a ELSE b

Abs(a) == IF a < 0 THEN 0 - a ELSE a

RECURSIVE GcdNat(_, _)
GcdNat(a, b) == IF b = 0 THEN a ELSE GcdNat(b, a % b)

Gcd(a, b) == GcdNat(Abs(a), Abs(b))

\* a rational <<n, d>> in lowest terms with a positive denominator
Norm(q) ==
    LET g == Gcd(q[1], q[2])
        s == IF q[2] < 0 THEN 0 - 1 ELSE 1
    IN  IF g = 0 THEN q ELSE <<s * (q[1] \div g), s * (q[2] \div g)>>

\* <<1, 0>> and <<-1, 0>> are the infinities and <<0, 0>> is nan, the
\* results of a floating-point division by zero.
\* The operations cancel common factors before they multiply, so that the
\* intermediate products stay small.
RAdd(p, q) ==
    LET g == Gcd(p[2], q[2])
    IN  IF g = 0 THEN (IF p = q THEN p ELSE <<0, 0>>)
        ELSE Norm(<<p[1] * (q[2] \div g) + q[1] * (p[2] \div g),
                    (p[2] \div g) * q[2]>>)

RNeg(p) == <<0 - p[1], p[2]>>

RSub(p, q) == RAdd(p, RNeg(q))

RMul(p, q) ==
    LET g1 == Gcd(p[1], q[2])
        g2 == Gcd(q[1], p[2])
    IN  IF g1 = 0 \/ g2 = 0 THEN Norm(<<p[1] * q[1], p[2] * q[2]>>)
        ELSE Norm(<<(p[1] \div g1) * (q[1] \div g2),
                    (p[2] \div g2) * (q[2] \div g1)>>)

RDiv(p, q) == RMul(p, <<q[2], q[1]>>)

RInv(p) == Norm(<<p[2], p[1]>>)

\* the integer n as a rational
R(n) == <<n, 1>>

\* sum of f[lo] .. f[hi] of an integer array
RECURSIVE SumInt(_, _, _)
SumInt(f, lo, hi) == IF lo > hi THEN 0 ELSE f[lo] + SumInt(f, lo + 1, hi)

\* sum of f[lo] .. f[hi] of an array of rationals
RECURSIVE SumRat(_, _, _)
SumRat(f, lo, hi) ==
    IF lo > hi THEN <<0, 1>> ELSE RAdd(f[lo], SumRat(f, lo + 1, hi))

\* all sequences over S of length 0..n
SeqsUpTo(S, n) == UNION {[1..k -> S] : k \in 0..n}

----------------------------------------------------------------------------
(* The circuit-parameter reducer: extract_transmon_coupled_Noscillator     *)
(*                                                                         *)
(* Units: capacitances of the matrix in fF (integers); frequencies fr, fb  *)
(* in GHz; angular frequencies in units of 2*pi*1e9 rad/s, so that         *)
(* wr = 2*pi*fr*1e9 is the number fr; Cr in units of pi/(4*pi*1e9) F/Ohm   *)
(* and Lr in the matching unit, so that Cr = 1/(wr*Zbus), Lr = 1/wr^2/Cr.  *)
(***************************************************************************)

\* Zbus = 50, the characteristic impedance of the transmission lines
Zbus == 50

\* Qreadout = 1e4 and Qcouplingbus = 1e5, the guessed quality factors
Qreadout == 10000

Qcouplingbus == 100000

\* T1 = 100 when there is no coupling port
T1NoPorts == 100

\* resonator frequencies the caller passes (GHz)
FrVals == {3}

FbVals == {5, 7}

\* junction parameters the caller passes: Ic (nA), CJ (fF)
IcVals == {20}

CJVals == {2}

\* Results of floating-point code the model does not evaluate (square
\* roots, the eigenvalue solver): drawn from these sets.
\* fq (MHz) and alpha (MHz) returned by levels_vs_ng_real_units(..., N=51)
FqVals == {1000, 7000}

AlphaVals == {0 - 2000}

DispVals == {2}

\* gqbus[i] in units of 2*pi*1e9 rad/s
GqVals == {1, 2}

\* A symmetric Maxwell capacitance matrix of the given size whose entries
\* differ from pair to pair: negative off the diagonal, positive on it.
CapMatrixOf(size, seed) ==
    [r \in 0..(size - 1) |->
        [c \in 0..(size - 1) |->
            IF r = c THEN seed * (100 + r)
            ELSE 0 - seed * (10 * Min(r, c) + Max(r, c) + 1)]]

NoneL4 == [isNone |-> TRUE, l |-> <<>>]

\* fb: a scalar (int, float) or a list; res_L4_corr: None or a list of flags
FbArgs ==
    {[isScalar |-> TRUE, v |-> f, l |-> <<>>] : f \in FbVals}
    \cup {[isScalar |-> FALSE, v |-> 0, l |-> s] :
              s \in SeqsUpTo(FbVals, MaxPorts - 1)}

L4Args ==
    {NoneL4} \cup {[isNone |-> FALSE, l |-> s] : s \in SeqsUpTo(BOOLEAN, MaxPorts)}

ReducerArgs ==
    [capMatrix : {CapMatrixOf(size, seed) : size \in 2..(MaxPorts + 3),
                                            seed \in 1..2},
     Ic : IcVals, CJ : CJVals,
     N : (0 - 1)..MaxPorts,
     fb : FbArgs, fr : FrVals, res_L4_corr : L4Args]

\* len(capMatrix)
Len0(arr) == Cardinality(DOMAIN arr)

\* if N < 0: raise ValueError('N must positive')
NegativeN(a) == a.N < 0

\* mutant: only a matrix that is too small is refused
WrongSizeOnlySmaller(a) == Len0(a.capMatrix) < a.N + 3

\* if len(capMatrix) != (N + 3): raise ValueError(...)
WrongSize(a) == Len0(a.capMatrix) # a.N + 3

\* mutant: the loop reads fb[ii] instead of fb[ii - 1]
FbIndexErrorNoOffset(a) ==
    /\ ~a.fb.isScalar
    /\ \E ii \in 1..(a.N - 1) : ii + 1 > Len(a.fb.l)

\* The loop filling wr reads fb[ii - 1] for ii = 1..N-1 when fb is a list:
\* an IndexError when the list is shorter than N - 1.
FbIndexError(a) ==
    /\ ~a.fb.isScalar
    /\ \E ii \in 1..(a.N - 1) : ii > Len(a.fb.l)

\* wr[ii]: the readout resonator first, then the buses
Wr(a) ==
    [ii \in 0..(a.N - 1) |->
        IF ii = 0 THEN a.fr
        ELSE IF a.fb.isScalar THEN a.fb.v ELSE a.fb.l[ii]]

\* Cr = 0.5 * pi / (wr * Zbus);  Lr = 1 / wr**2 / Cr
CrHalfWave(wr) == [ii \in DOMAIN wr |-> Norm(<<1, wr[ii] * Zbus>>)]

LrHalfWave(wr) ==
    [ii \in DOMAIN wr |->
        RDiv(RInv(R(wr[ii] * wr[ii])), CrHalfWave(wr)[ii])]

\* res_L4_corr[i], i 0-based, of a list argument
L4Flag(a, i) ==
    /\ ~a.res_L4_corr.isNone
    /\ i + 1 <= Len(a.res_L4_corr.l)
    /\ a.res_L4_corr.l[i + 1]

\* The loop over range(len(res_L4_corr)) writes Cr[i], Lr[i] for every truthy
\* flag: an IndexError when such an i is not below N = len(Cr).
L4IndexError(a) ==
    \E i \in 0..(Len(a.res_L4_corr.l) - 1) : L4Flag(a, i) /\ i >= a.N

Cr(a) ==
    [ii \in 0..(a.N - 1) |->
        IF L4Flag(a, ii) THEN RDiv(CrHalfWave(Wr(a))[ii], R(2))
        ELSE CrHalfWave(Wr(a))[ii]]

\* mutant: the inductance of a quarter-wave port is halved like Cr
LrHalved(a) ==
    [ii \in 0..(a.N - 1) |->
        IF L4Flag(a, ii) THEN RDiv(LrHalfWave(Wr(a))[ii], R(2))
        ELSE LrHalfWave(Wr(a))[ii]]

Lr(a) ==
    [ii \in 0..(a.N - 1) |->
        IF L4Flag(a, ii) THEN RMul(LrHalfWave(Wr(a))[ii], R(2))
        ELSE LrHalfWave(Wr(a))[ii]]

\* mutant: the ground after the readout pad, at index N
GroundIndexAfterReadout(a) == Max(0, a.N)

\* ground_index = max([0, N - 1])
GroundIndex(a) == Max(0, a.N - 1)

\* qubit_index = [ground_index + 1, ground_index + 2]
QubitIndex(a) == [k \in 0..1 |-> GroundIndex(a) + 1 + k]

\* mutant: the readout pad is the last port
BusIndexReadoutLast(a) ==
    [ii \in 0..(a.N - 1) |->
        IF ii = a.N - 1 THEN Len0(a.capMatrix) - 1 ELSE ii]

\* bus_index: the readout pad is the last row, bus ii is row ii - 1
BusIndex(a) ==
    [ii \in 0..(a.N - 1) |->
        IF ii = 0 THEN Len0(a.capMatrix) - 1 ELSE ii - 1]

\* Cg = [-capMatrix[qubit_index[0], ground_index], -capMatrix[qubit_index[1], ...]]
Cg(a) ==
    [k \in 0..1 |-> 0 - a.capMatrix[QubitIndex(a)[k]][GroundIndex(a)]]

\* Cs = -capMatrix[qubit_index[0], qubit_index[1]]
Cs(a) == 0 - a.capMatrix[QubitIndex(a)[0]][QubitIndex(a)[1]]

\* Cbus[ii, jj] = -capMatrix[qubit_index[ii], bus_index[jj]]
Cbus(a) ==
    [ii \in 0..1 |->
        [jj \in 0..(a.N - 1) |->
            0 - a.capMatrix[QubitIndex(a)[ii]][BusIndex(a)[jj]]]]

\* Cbusbus[ii, jj] = -capMatrix[bus_index[ii], bus_index[jj]] for ii != jj
Cbusbus(a) ==
    [ii \in 0..(a.N - 1) |->
        [jj \in 0..(a.N - 1) |->
            IF ii # jj THEN 0 - a.capMatrix[BusIndex(a)[ii]][BusIndex(a)[jj]]
            ELSE 0]]

\* C1S = Cg[0] + np.sum(Cbus[0,]);  C2S = Cg[1] + np.sum(Cbus[1,])
CkS(a, k) == Cg(a)[k] + SumInt(Cbus(a)[k], 0, a.N - 1)

\* tCSq = Cs + C1S * C2S / (C1S + C2S);  Cq = tCSq + CJ
Cq(a) ==
    RAdd(RAdd(R(Cs(a)), Norm(<<CkS(a, 0) * CkS(a, 1), CkS(a, 0) + CkS(a, 1)>>)),
         R(a.CJ))

\* mutant: every port gets the quality factor of the readout
QbusAllReadout(a) == [ii \in 0..(a.N - 1) |-> Qreadout]

\* Qbus[ii] = Qreadout for ii == 0, Qcouplingbus otherwise
Qbus(a) ==
    [ii \in 0..(a.N - 1) |-> IF ii = 0 THEN Qreadout ELSE Qcouplingbus]

\* wq = 2 * np.pi * fq * 1e9, from fq in MHz
WqOf(fq) == Norm(<<fq, 1000>>)

\* gqbus[ii] as a rational
GqOf(g) == R(g)

\* kbus = wr / Qbus
Kbus(a) == [ii \in 0..(a.N - 1) |-> RDiv(R(Wr(a)[ii]), R(Qbus(a)[ii]))]

\* T1bus = (wr**2 - wq**2)**2 / (4 * kbus * gqbus**2 * wq**2)
T1bus(a, wq, gq) ==
    [ii \in 0..(a.N - 1) |->
        LET wr == R(Wr(a)[ii])
            kbus == Kbus(a)[ii]
            dw == RSub(RMul(wr, wr), RMul(wq, wq))
        IN  RDiv(RMul(dw, dw),
                 RMul(RMul(R(4), kbus), RMul(RMul(gq[ii], gq[ii]), RMul(wq, wq))))]

\* mutant: the reciprocal sum without the N > 0 guard
T1TotalUnguarded(a, t1bus) ==
    RInv(SumRat([ii \in 0..(a.N - 1) |-> RInv(t1bus[ii])], 0, a.N - 1))

\* if N > 0: T1 = 1 / (np.sum(1 / T1bus))  else: T1 = 100
T1Total(a, t1bus) ==
    IF a.N > 0
    THEN RInv(SumRat([ii \in 0..(a.N - 1) |-> RInv(t1bus[ii])], 0, a.N - 1))
    ELSE R(T1NoPorts)

\* a division by zero of the floating-point code: inf or nan, no exception
NotFinite == <<0, 0>>

\* chi(g, wr, w01, w12), Koch Eq. (3.9), (3.10)
Chi(g, wr, w01, w12) ==
    IF \/ RSub(RMul(w01, w01), RMul(wr, wr))[1] = 0
       \/ RSub(w01, wr)[1] = 0 \/ RSub(w12, wr)[1] = 0
       \/ RAdd(w01, wr)[1] = 0 \/ RAdd(w12, wr)[1] = 0
    THEN NotFinite
    ELSE LET g2 == RMul(g, g)
             chibus_0 == RDiv(RMul(RMul(R(0 - 2), g2), w01),
                              RSub(RMul(w01, w01), RMul(wr, wr)))
             chibus_1 == RMul(g2,
                 RSub(RAdd(RSub(RInv(RSub(w01, wr)), RDiv(R(2), RSub(w12, wr))),
                           RInv(RAdd(w01, wr))),
                      RDiv(R(2), RAdd(w12, wr))))
         IN  RDiv(RSub(chibus_1, chibus_0), R(2))

\* d = alpha * 2 * np.pi * 1e6;  Chi_in_MHz = 2 * chi(gqbus, wr, wq, d + wq) / 2 / np.pi / 1e6
ChiInMHz(a, wq, alpha, gq) ==
    [ii \in 0..(a.N - 1) |->
        LET c == Chi(gq[ii], R(Wr(a)[ii]), wq, RAdd(Norm(<<alpha, 1000>>), wq))
        IN  IF c = NotFinite THEN NotFinite ELSE RMul(R(2000), c)]

\* ham_dict, each value in the unit of its key: fQ GHz, EC in units of
\* e^2/(2*hbar*fF), EJ in units of phi0*nA/hbar, alpha MHz, dispersion kHz,
\* gbus MHz, chi_in_MHz MHz
HamDict(a, fq, alpha, disp, gq) ==
    [fQ |-> WqOf(fq),
     EC |-> RInv(Cq(a)),
     EJ |-> R(a.Ic),
     alpha |-> R(alpha),
     dispersion |-> Norm(<<disp, 1000>>),
     gbus |-> [ii \in 0..(a.N - 1) |-> RMul(gq[ii], R(1000))],
     chi_in_MHz |-> ChiInMHz(a, WqOf(fq), alpha, gq)]

\* The objects a call creates: the dict ham_dict = {} and the arrays
\* gbus_in_MHz and Chi_in_MHz.  An object is named by its number in the
\* order of creation.
\* mutant: the objects of the first call are used again
CachedObject(created) == (created % 3) + 1

\* the next object, after `created` objects
NewObject(created) == created + 1

HamObjects(created) ==
    [dict |-> NewObject(created), gbus |-> NewObject(created + 1),
     chi |-> NewObject(created + 2)]

NoObjects == [dict |-> 0, gbus |-> 0, chi |-> 0]

NoHam ==
    [fQ |-> R(0), EC |-> R(0), EJ |-> R(0), alpha |-> R(0), dispersion |-> R(0),
     gbus |-> <<>>, chi_in_MHz |-> <<>>]

\* the call has not run yet / has raised: no locals, no ham_dict
Raised(exc) ==
    [pc |-> "raised", exc |-> exc, ground_index |-> 0 - 1, qubit_index |-> <<>>,
     bus_index |-> <<>>, wr |-> <<>>, Cr |-> <<>>, Lr |-> <<>>, Cg |-> <<>>,
     Cs |-> 0, Cbus |-> <<>>, Qbus |-> <<>>, kbus |-> <<>>, T1bus |-> <<>>,
     T1 |-> R(0), ham |-> NoHam, objects |-> NoObjects]

ReducerReady == [Raised("") EXCEPT !.pc = "ready"]

\* the state after a call that ran to "return ham_dict"
Returned(a, fq, alpha, disp, gq) ==
    [pc |-> "returned", exc |-> "",
     ground_index |-> GroundIndex(a), qubit_index |-> QubitIndex(a),
     bus_index |-> BusIndex(a), wr |-> Wr(a), Cr |-> Cr(a), Lr |-> Lr(a),
     Cg |-> Cg(a), Cs |-> Cs(a), Cbus |-> Cbus(a),
     Qbus |-> Qbus(a), kbus |-> Kbus(a),
     T1bus |-> T1bus(a, WqOf(fq), gq),
     T1 |-> T1Total(a, T1bus(a, WqOf(fq), gq)),
     ham |-> HamDict(a, fq, alpha, disp, gq),
     objects |-> HamObjects(0)]

\* One call of extract_transmon_coupled_Noscillator(capMatrix, Ic, CJ, N, fb,
\* fr, res_L4_corr), from the error checks to the return.
ExtractCall ==
    /\ rout.pc = "ready"
    /\ IF NegativeN(rin) THEN rout' = Raised("ValueError: N must positive")
       ELSE IF WrongSize(rin)
       THEN rout' = Raised("ValueError: Capacitance matrix is not the right size")
       ELSE IF FbIndexError(rin) THEN rout' = Raised("IndexError: fb")
       ELSE IF L4IndexError(rin) THEN rout' = Raised("IndexError: res_L4_corr")
       ELSE \E fq \in FqVals, alpha \in AlphaVals, disp \in DispVals,
               gq \in [0..(rin.N - 1) -> {GqOf(g) : g \in GqVals}] :
                rout' = Returned(rin, fq, alpha, disp, gq)
    /\ UNCHANGED <<rin, sin, sst, bin, bout, rtwo, utilVars>>

\* the value a caller stores into a result
Stored == R(0 - 999)

\* The caller calls the reducer a second time with the same arguments and
\* keeps both results; the second call computes the same values and creates
\* its own objects.
ExtractAgain ==
    /\ rout.pc = "returned" /\ rtwo.pc = "none"
    /\ rtwo' = [pc |-> "returned", ham |-> rout.ham, objects |-> HamObjects(3)]
    /\ UNCHANGED <<rin, rout, sin, sst, bin, bout, utilVars>>

\* The caller stores into the second result: ham_dict['fQ'] = v, or
\* ham_dict['gbus'][i] = v.  The store shows in the first result exactly
\* when the two share the object stored into.
ResultStore ==
    /\ rtwo.pc = "returned"
    /\ \/ /\ rtwo' = [rtwo EXCEPT !.pc = "stored", !.ham.fQ = Stored]
          /\ rout' = IF rout.objects.dict = rtwo.objects.dict
                     THEN [rout EXCEPT !.ham.fQ = Stored] ELSE rout
       \/ \E i \in DOMAIN rtwo.ham.gbus :
          /\ rtwo' = [rtwo EXCEPT !.pc = "stored", !.ham.gbus[i] = Stored]
          /\ rout' = IF rout.objects.gbus = rtwo.objects.gbus
                     THEN [rout EXCEPT !.ham.gbus[i] = Stored] ELSE rout
    /\ UNCHANGED <<rin, sin, sst, bin, bout, utilVars>>

\* idle values of the parts a specification does not exercise
IdleReducerIn ==
    [capMatrix |-> CapMatrixOf(3, 1), Ic |-> 20, CJ |-> 2, N |-> 0,
     fb |-> [isScalar |-> TRUE, v |-> 5, l |-> <<>>], fr |-> 3,
     res_L4_corr |-> NoneL4]

NoSecondCall == [pc |-> "none", ham |-> NoHam, objects |-> NoObjects]

IdleSolver == [pc |-> "idle"]

IdleReorder == [pc |-> "idle"]

IdleReader == [pc |-> "idle"]

ReaderIdle == qin = IdleReader /\ qout = IdleReader

IdleChi == [pc |-> "idle"]

ChiIdle == cin = IdleChi /\ cout = IdleChi

IdleKidx == [pc |-> "idle"]

KidxIdle == kin = IdleKidx /\ kout = IdleKidx

IdleFit == [pc |-> "idle"]

FitIdle == fin = IdleFit /\ fst = IdleFit

IdlePeriodic == [pc |-> "idle"]

PeriodicIdle == pin = IdlePeriodic /\ pst = IdlePeriodic

IdleTable == [pc |-> "idle"]

TableIdle == tenv = IdleTable /\ tmod = IdleTable

IdleQubit == [pc |-> "idle"]

QubitIdle == uin = IdleQubit /\ ust = IdleQubit

GuiIdle == PeriodicIdle /\ TableIdle /\ QubitIdle

AnalysisIdle == ReaderIdle /\ ChiIdle /\ KidxIdle /\ FitIdle

analysisVars == <<readerVars, chiVars, kidxVars, fitVars>>

UtilIdle == AnalysisIdle /\ GuiIdle

CoreIdle ==
    /\ rin = IdleReducerIn /\ rout = ReducerReady /\ rtwo = NoSecondCall
    /\ sin = IdleSolver /\ sst = IdleSolver
    /\ bin = IdleReorder /\ bout = IdleReorder

coreVars == <<rin, rout, rtwo, sin, sst, bin, bout>>

InitReducer ==
    /\ rin \in ReducerArgs
    /\ rout = ReducerReady
    /\ rtwo = NoSecondCall
    /\ sin = IdleSolver /\ sst = IdleSolver
    /\ bin = IdleReorder /\ bout = IdleReorder
    /\ UtilIdle

NextReducer == ExtractCall \/ ExtractAgain \/ ResultStore

SpecReducer == InitReducer /\ [][NextReducer]_vars

----------------------------------------------------------------------------
(* The level solver: levels_vs_ng_real_units(Cq, IC, N)                    *)
(*                                                                         *)
(* Units: the matrix H in units of 1e-9*hbar/(2e) J (so EJ = IC*varphi is  *)
(* the number IC in nA, and Ec = e^2/2/C is EcScale/Cq with Cq in fF); the *)
(* eigenvalues and the levels table in units of h*1e6 J, so that           *)
(* elvls/h/1e9 is the number over 1000 (GHz) and elvls/h the number times  *)
(* 1e6 (Hz).                                                               *)
(***************************************************************************)

\* charge-basis cutoff: nmax = 40 in the source; the model keeps the
\* construction and cuts the basis at a smaller nmax
nmax == 1

\* largest grid size N (number of offset-charge samples)
MaxGrid == 3

\* dim = 2 * nmax + 1
dim == 2 * nmax + 1

\* e**3 / (hbar * 1e-24), rounded: Ec = e**2 / 2 / C in the unit of H
EcScale == 39

\* Cq (fF) and IC (nA) the caller passes
CqVals == {65, 100}

ICVals == {0, 20}

SolverArgs == [Cq : CqVals, IC : ICVals, N : 1..MaxGrid]

\* Ec = e**2 / 2 / C
Ec(a) == Norm(<<EcScale, a.Cq>>)

\* EJ = IC * varphi
EJ(a) == R(a.IC)

\* charge = np.linspace(-1., 1., N); a single sample is the start point -1
Charge(a) ==
    [i \in 0..(a.N - 1) |->
        IF a.N = 1 THEN R(0 - 1) ELSE RAdd(R(0 - 1), Norm(<<2 * i, a.N - 1>>))]

\* nmat[ii, ii] = ii - nmax
Nmat == [i \in 0..(dim - 1) |-> [j \in 0..(dim - 1) |-> IF i = j THEN i - nmax ELSE 0]]

\* np.diag(-0.5 * np.ones([dim - 1]), 1): the first upper diagonal
VUpper ==
    [i \in 0..(dim - 1) |->
        [j \in 0..(dim - 1) |-> IF j = i + 1 THEN <<0 - 1, 2>> ELSE R(0)]]

\* mutant: the transpose is not added, V stays upper triangular
VOnlyUpper == VUpper

\* V = (V + np.transpose(np.conj(V)))
V ==
    [i \in 0..(dim - 1) |->
        [j \in 0..(dim - 1) |-> RAdd(VUpper[i][j], VUpper[j][i])]]

\* H = 4 * Ec * (nmat - ng * np.eye(dim))**2 + EJ * V, ** elementwise
Hamiltonian(a, ng) ==
    LET fourEc == RMul(R(4), Ec(a))
        ej == EJ(a)
        v == V
    IN  [i \in 0..(dim - 1) |->
            [j \in 0..(dim - 1) |->
                LET x == RSub(R(Nmat[i][j]), IF i = j THEN ng ELSE R(0))
                IN  RAdd(RMul(fourEc, RMul(x, x)), RMul(ej, v[i][j]))]]

\* np.array_equal(H, np.transpose(np.conj(H)))
IsHermitian(H) ==
    \A i \in 0..(dim - 1) : \A j \in 0..(dim - 1) : H[i][j] = H[j][i]

\* np.linalg.eig returns the eigenvalues in no particular order: an
\* ascending spectrum (ground value, two gaps, then unit steps), permuted.
SpectrumOf(e0, g1, g2) ==
    [k \in 1..dim |->
        IF k = 1 THEN e0 ELSE IF k = 2 THEN e0 + g1 ELSE e0 + g1 + g2 + (k - 3)]

GroundVals == {0 - 2, 1}

GapVals == {0, 1, 2}

EigOrders == {"ascending", "descending", "rotated"}

Permuted(sp, order) ==
    [k \in 1..dim |->
        IF order = "ascending" THEN sp[k]
        ELSE IF order = "descending" THEN sp[dim + 1 - k]
        ELSE sp[(k % dim) + 1]]

EigResults ==
    {Permuted(SpectrumOf(e0, g1, g2), o) :
        e0 \in GroundVals, g1 \in GapVals, g2 \in GapVals, o \in EigOrders}

\* insertion of x into an ascending sequence
RECURSIVE InsertSorted(_, _)
InsertSorted(x, sq) ==
    IF sq = <<>> THEN <<x>>
    ELSE IF x <= Head(sq) THEN <<x>> \o sq
    ELSE <<Head(sq)>> \o InsertSorted(x, Tail(sq))

RECURSIVE SortAscending(_)
SortAscending(sq) ==
    IF sq = <<>> THEN <<>> ELSE InsertSorted(Head(sq), SortAscending(Tail(sq)))

\* mutant: the eigenvalues are used in the order eig returned them
Unsorted(d) == d

\* sortIX = np.argsort(d); sorted_d = d[sortIX]
SortedD(d) == SortAscending(d)

\* mutant: the ground value is not subtracted
LevelsUnshifted(d) ==
    LET sorted_d == SortedD(d) IN [k \in 0..(dim - 1) |-> sorted_d[k + 1]]

\* sorted_d - sorted_d[0], as the column written to elvls[:, iindex]
Levels(d) ==
    LET sorted_d == SortedD(d)
    IN  [k \in 0..(dim - 1) |-> sorted_d[k + 1] - sorted_d[1]]

\* the largest element of a non-empty set of integers
MaxOf(S) == CHOOSE x \in S : \A y \in S : y <= x

MinOf(S) == CHOOSE x \in S : \A y \in S : x <= y

\* fqubitGHz = np.mean(elvls[1,] / h / 1e9)
FqubitGHz(elvls, N) == Norm(<<SumInt(elvls[1], 0, N - 1), 1000 * N>>)

\* mutant: the anharmonicity taken as level 2 - level 1
AnharTermWrong(elvls, i) == elvls[2][i] - elvls[1][i]

\* 1000 * (elvls[2,]/h/1e9 - elvls[0,]/h/1e9 - 2*elvls[1,]/h/1e9 - elvls[0,]/h/1e9)
AnharTerm(elvls, i) ==
    elvls[2][i] - elvls[0][i] - 2 * elvls[1][i] - elvls[0][i]

\* anharMHz = np.mean(...)
AnharMHz(elvls, N) ==
    Norm(<<SumInt([i \in 0..(N - 1) |-> AnharTerm(elvls, i)], 0, N - 1), N>>)

\* mutant: the drop of level 1 below its last sample
DispFromLast(elvls, N) ==
    1000000 * MaxOf({0 - elvls[1][i] + elvls[1][N - 1] : i \in 0..(N - 1)})

\* disp = np.max(-elvls[1,] / h + elvls[1, 0] / h), in Hz
Disp(elvls, N) ==
    1000000 * MaxOf({0 - elvls[1][i] + elvls[1][0] : i \in 0..(N - 1)})

\* tphi_ms = 2 / (2 * np.pi * disp * np.pi * 1e-4 * 1e-3), in units of
\* 1/pi^2; a zero dispersion gives inf, <<1, 0>>
TphiMs(disp) == RDiv(R(10000000), R(disp))

ZeroLevels(N) == [k \in 0..(dim - 1) |-> [i \in 0..(N - 1) |-> 0]]

NoMatrix == <<>>

\* entry of the call: elvls = np.zeros([dim, N]), before the first sample
SolverEntry(a) ==
    [pc |-> "loop", exc |-> "", iindex |-> 0, H |-> NoMatrix,
     elvls |-> ZeroLevels(a.N),
     fqubitGHz |-> R(0), anharMHz |-> R(0), disp |-> 0, tphi_ms |-> R(0)]

\* One pass of the loop over the grid: H for ng = charge[iindex], the
\* Hermitian check, eig, the sort, the shift by the ground value.
SolverSample ==
    /\ sst.pc = "loop"
    /\ sst.iindex < sin.N
    /\ \E H \in {Hamiltonian(sin, Charge(sin)[sst.iindex])} :
           IF ~IsHermitian(H)
           THEN sst' = [sst EXCEPT !.pc = "raised", !.H = H,
                                   !.exc = "ValueError: Matrix is not Hermitian"]
           ELSE \E d \in EigResults :
                    LET column == Levels(d)
                    IN  sst' = [sst EXCEPT
                            !.H = H,
                            !.elvls = [k \in 0..(dim - 1) |->
                                         [@[k] EXCEPT ![sst.iindex] = column[k]]],
                            !.iindex = @ + 1]
    /\ UNCHANGED <<rin, rout, sin, bin, bout, rtwo, utilVars>>

\* After the loop: the means, the dispersion, the dephasing time, the return.
SolverReturn ==
    /\ sst.pc = "loop"
    /\ sst.iindex = sin.N
    /\ sst' = [sst EXCEPT
                  !.pc = "returned",
                  !.fqubitGHz = FqubitGHz(sst.elvls, sin.N),
                  !.anharMHz = AnharMHz(sst.elvls, sin.N),
                  !.disp = Disp(sst.elvls, sin.N),
                  !.tphi_ms = TphiMs(Disp(sst.elvls, sin.N))]
    /\ UNCHANGED <<rin, rout, sin, bin, bout, rtwo, utilVars>>

InitSolver ==
    /\ sin \in SolverArgs
    /\ sst = SolverEntry(sin)
    /\ rin = IdleReducerIn /\ rout = ReducerReady /\ rtwo = NoSecondCall
    /\ bin = IdleReorder /\ bout = IdleReorder
    /\ UtilIdle

NextSolver == SolverSample \/ SolverReturn

SpecSolver == InitSolver /\ [][NextSolver]_vars

----------------------------------------------------------------------------
(* The basis reorderer: move_index_to, df_reorder_matrix_basis             *)
(*                                                                         *)
(* A DataFrame is a record of its values (a 0-based square array), its row *)
(* labels (index) and its column labels (columns).  An index array (idxs,  *)
(* idx) is a sequence of 0-based indices.                                  *)
(***************************************************************************)

\* largest matrix dimension of a reordered table
MaxDim == 4

\* largest number of source indices in a list i_from
MaxMove == 2

\* the values of a table that is not symmetric
SkewValues(n) == [r \in 0..(n - 1) |-> [c \in 0..(n - 1) |-> 10 * r + c]]

\* a labelled table, symmetric for seed 1 and 2, not symmetric for seed 3;
\* row label i is 10 + i, column label 20 + i
FrameOf(n, seed) ==
    [values |-> IF seed = 3 THEN SkewValues(n) ELSE CapMatrixOf(n, seed),
     index |-> [i \in 0..(n - 1) |-> 10 + i],
     columns |-> [i \in 0..(n - 1) |-> 20 + i]]

\* i_from: one index or a list of indices; i_to: one index
IndexArgs(n) ==
    {[isList |-> FALSE, v |-> i, l |-> <<>>] : i \in 0..(n - 1)}
    \cup {[isList |-> TRUE, v |-> 0, l |-> sq] : sq \in SeqsUpTo(0..(n - 1), MaxMove)}

ReorderArgs ==
    UNION {[df : {FrameOf(n, seed) : seed \in 1..3},
            i_from : IndexArgs(n), i_to : 0..(n - 1)] : n \in 2..MaxDim}

\* the values np.insert places: the scalar, or the entries of the list
AsList(i) == IF i.isList THEN i.l ELSE <<i.v>>

Elems(sq) == {sq[k] : k \in DOMAIN sq}

\* idxs = np.arange(0, len_)
Arange(n) == [k \in 1..n |-> k - 1]

\* np.delete(idxs, obj): the entries at the positions named in obj removed
RECURSIVE DeleteAt(_, _, _)
DeleteAt(sq, positions, at) ==
    IF sq = <<>> THEN <<>>
    ELSE IF at \in positions THEN DeleteAt(Tail(sq), positions, at + 1)
    ELSE <<Head(sq)>> \o DeleteAt(Tail(sq), positions, at + 1)

NpDelete(sq, obj) == DeleteAt(sq, Elems(AsList(obj)), 0)

\* np.insert(arr, at, values) is an IndexError for at > len(arr)
InsertOutOfBounds(sq, at) == at > Len(sq) \/ at < 0 - Len(sq)

\* mutant: the block is inserted after the entry at the destination
NpInsertAfter(sq, at, vals) ==
    SubSeq(sq, 1, Min(at + 1, Len(sq))) \o vals
        \o SubSeq(sq, Min(at + 1, Len(sq)) + 1, Len(sq))

\* np.insert(arr, at, values): values as one block before position at
NpInsert(sq, at, vals) ==
    SubSeq(sq, 1, at) \o vals \o SubSeq(sq, at + 1, Len(sq))

\* move_index_to raises when np.insert does
MoveRaises(i_from, i_to, len_) ==
    InsertOutOfBounds(NpDelete(Arange(len_), i_from), i_to)

\* move_index_to(i_from, i_to, len_)
MoveIndexTo(i_from, i_to, len_) ==
    NpInsert(NpDelete(Arange(len_), i_from), i_to, AsList(i_from))

\* mutant: the values and the column labels are permuted, the row labels
\* keep their places
ReindexKeepsRowLabels(df, idx) ==
    [values |-> [r \in 0..(Len(idx) - 1) |->
                    [c \in 0..(Len(idx) - 1) |-> df.values[idx[r + 1]][idx[c + 1]]]],
     index |-> [r \in 0..(Len(idx) - 1) |->
                    df.index[IF r \in DOMAIN df.index THEN r ELSE idx[r + 1]]],
     columns |-> [c \in 0..(Len(idx) - 1) |-> df.columns[idx[c + 1]]]]

\* mutant: only the rows of the values are permuted
ReindexRowsOnly(df, idx) ==
    [values |-> [r \in 0..(Len(idx) - 1) |->
                    [c \in 0..(Len(idx) - 1) |->
                        df.values[idx[r + 1]][IF c \in DOMAIN df.values THEN c
                                              ELSE idx[c + 1]]]],
     index |-> [r \in 0..(Len(idx) - 1) |-> df.index[idx[r + 1]]],
     columns |-> [c \in 0..(Len(idx) - 1) |-> df.columns[idx[c + 1]]]]

\* arr[np.ix_(idx, idx)], columns=df.columns[idx], index=df.index[idx]
Reindex(df, idx) ==
    [values |-> [r \in 0..(Len(idx) - 1) |->
                    [c \in 0..(Len(idx) - 1) |-> df.values[idx[r + 1]][idx[c + 1]]]],
     index |-> [r \in 0..(Len(idx) - 1) |-> df.index[idx[r + 1]]],
     columns |-> [c \in 0..(Len(idx) - 1) |-> df.columns[idx[c + 1]]]]

NoFrame == [values |-> <<>>, index |-> <<>>, columns |-> <<>>]

\* The memory the values of a table live in: "input" is the block of the
\* caller's df, every other name is an array allocated during the call.
\* arr = df.values is a view of the block for a table of one dtype and a
\* new array for a table of mixed dtypes.
ValuesBuffers == {"input", "values"}

\* mutant: the indexing returns a view of the indexed array
IxBufferView(buf) == buf

\* arr[np.ix_(idx, idx)] is advanced indexing: always a new array
IxBuffer(buf) == "indexed"

\* pd.DataFrame(arr, ...) wraps the array it is given
FrameBuffer(buf) == buf

\* the value a caller stores into the returned table
Written == 999

ReorderReady ==
    [pc |-> "ready", exc |-> "", idx |-> <<>>, df |-> NoFrame, back |-> NoFrame,
     buf |-> "none"]

\* One call of df_reorder_matrix_basis(df, i_from, i_to)
ReorderCall ==
    /\ bout.pc = "ready"
    /\ IF MoveRaises(bin.i_from, bin.i_to, Len0(bin.df.values))
       THEN bout' = [bout EXCEPT !.pc = "raised", !.exc = "IndexError: insert"]
       ELSE \E arr \in ValuesBuffers :
              bout' = [bout EXCEPT
                !.pc = "reordered",
                !.idx = MoveIndexTo(bin.i_from, bin.i_to, Len0(bin.df.values)),
                !.df = Reindex(bin.df,
                         MoveIndexTo(bin.i_from, bin.i_to, Len0(bin.df.values))),
                !.buf = FrameBuffer(IxBuffer(arr))]
    /\ UNCHANGED <<rin, rout, sin, sst, bin, rtwo, utilVars>>

\* The caller stores a value into entry (r, c) of the returned table; the
\* store reaches the input exactly when the two share their memory.
ReorderWrite ==
    /\ bout.pc = "reordered"
    /\ \E r \in DOMAIN bout.df.values : \E c \in DOMAIN bout.df.values :
          /\ bout' = [bout EXCEPT !.pc = "written",
                                  !.df.values[r][c] = Written]
          /\ bin' = IF bout.buf = "input"
                    THEN [bin EXCEPT
                            !.df.values[bout.idx[r + 1]][bout.idx[c + 1]] = Written]
                    ELSE bin
    /\ UNCHANGED <<rin, rout, sin, sst, rtwo, utilVars>>

\* The move of a single index undone by the caller:
\* df_reorder_matrix_basis(result, i_to, i_from)
ReorderBack ==
    /\ bout.pc = "reordered"
    /\ ~bin.i_from.isList
    /\ LET from2 == [isList |-> FALSE, v |-> bin.i_to, l |-> <<>>]
           to2 == bin.i_from.v
           n == Len0(bout.df.values)
       IN  IF MoveRaises(from2, to2, n)
           THEN bout' = [bout EXCEPT !.pc = "raised", !.exc = "IndexError: insert"]
           ELSE bout' = [bout EXCEPT
                    !.pc = "roundtrip",
                    !.back = Reindex(bout.df, MoveIndexTo(from2, to2, n))]
    /\ UNCHANGED <<rin, rout, sin, sst, bin, rtwo, utilVars>>

InitReorder ==
    /\ bin \in ReorderArgs
    /\ bout = ReorderReady
    /\ rin = IdleReducerIn /\ rout = ReducerReady /\ rtwo = NoSecondCall
    /\ sin = IdleSolver /\ sst = IdleSolver
    /\ UtilIdle

NextReorder == ReorderCall \/ ReorderBack \/ ReorderWrite

SpecReorder == InitReorder /\ [][NextReorder]_vars

----------------------------------------------------------------------------
(* The Q3D reader: readin_q3d_matrix(path)                                 *)
(*                                                                         *)
(* The text of the file is a sequence of lines and a flag telling whether  *)
(* the last line ends with a newline.  A line is one of                    *)
(*   "dv"    DesignVariation:<v>          "d_v"  Design Variation:<v>      *)
(*   "units" C Units:<v>, G Units:mSie    "row"  a row of a matrix         *)
(*   "cap"   Capacitance Matrix           "cond" Conductance Matrix        *)
(***************************************************************************)

\* largest number of lines of a file
MaxLines == 5

Lines ==
    {[kind |-> "dv", v |-> x] : x \in {"a", "b"}}
    \cup {[kind |-> "d_v", v |-> x] : x \in {"c", "d"}}
    \cup {[kind |-> "units", v |-> "farad"]}
    \cup {[kind |-> k, v |-> ""] : k \in {"cap", "cond", "row"}}

\* text = Path(path).read_text()
ReaderArgs == [lines : SeqsUpTo(Lines, MaxLines), nl : BOOLEAN]

\* text.split(marker): the pieces between the occurrences of the marker,
\* one more than there are occurrences
RECURSIVE SplitLines(_, _, _)
SplitLines(lines, marker, piece) ==
    IF lines = <<>> THEN <<piece>>
    ELSE IF Head(lines).kind = marker
         THEN <<piece>> \o SplitLines(Tail(lines), marker, <<>>)
         ELSE SplitLines(Tail(lines), marker, Append(piece, Head(lines)))

Split(lines, marker) == SplitLines(lines, marker, <<>>)

\* mutant: a text with more than one marker is accepted
MarkerCheckFailsOnlyMissing(s1) == Len(s1) < 2

\* assert len(s1) == 2
MarkerCheckFails(s1) == Len(s1) # 2

\* pd.read_csv(io.StringIO(block.strip())) of a block without content is an
\* EmptyDataError; otherwise the table holds the lines of the block
CsvEmpty(block) == block = <<>>

\* line i of the text is followed by a newline
Terminated(text, i) == i < Len(text.lines) \/ text.nl

\* mutant: the pattern does not ask for the end of the line
FindHeaderUnterminated(text, kind) ==
    SelectSeq([i \in 1..Len(text.lines) |->
                    IF text.lines[i].kind = kind
                    THEN text.lines[i].v ELSE "-"],
              LAMBDA x : x # "-")

\* re.findall(r'DesignVariation:(.*?)\n', text) and
\* re.findall(r'Design Variation:(.*?)\n', text): the values of the header
\* lines of the kind that a newline follows, in the order of the text
FindHeader(text, kind) ==
    SelectSeq([i \in 1..Len(text.lines) |->
                    IF text.lines[i].kind = kind /\ Terminated(text, i)
                    THEN text.lines[i].v ELSE "-"],
              LAMBDA x : x # "-")

\* re.findall(r'C Units:(.*?),', text): the comma is on the line itself
FindUnits(text) ==
    SelectSeq([i \in 1..Len(text.lines) |->
                    IF text.lines[i].kind = "units" THEN text.lines[i].v ELSE "-"],
              LAMBDA x : x # "-")

\* mutant: 'Design Variation:' is looked for first
DesignVariationFlipped(text) ==
    IF Len(FindHeader(text, "d_v")) = 0
    THEN IF FindHeader(text, "dv") # <<>> THEN FindHeader(text, "dv")[1] ELSE ""
    ELSE FindHeader(text, "d_v")[1]

\* lines 672-680: the first 'DesignVariation:' match, else the first
\* 'Design Variation:' match, else ''
DesignVariation(text) ==
    IF Len(FindHeader(text, "dv")) = 0
    THEN IF FindHeader(text, "d_v") # <<>> THEN FindHeader(text, "d_v")[1] ELSE ""
    ELSE FindHeader(text, "dv")[1]

NoTable == <<[kind |-> "none", v |-> ""]>>

ReaderRaised(exc) ==
    [pc |-> "raised", exc |-> exc, df_cmat |-> NoTable, units |-> "",
     design_variation |-> "", df_cond |-> NoTable]

ReaderReady == [ReaderRaised("") EXCEPT !.pc = "ready"]

\* One call of readin_q3d_matrix(path) with the default delim_whitespace
ReadCall ==
    /\ qout.pc = "ready"
    /\ LET s1 == Split(qin.lines, "cap")
           s2 == Split(s1[2], "cond")
       IN  IF MarkerCheckFails(s1)
           THEN qout' = ReaderRaised("AssertionError")
           ELSE IF CsvEmpty(s2[1])
           THEN qout' = ReaderRaised("EmptyDataError: df_cmat")
           ELSE IF Len(s2) > 1 /\ CsvEmpty(s2[2])
           THEN qout' = ReaderRaised("EmptyDataError: df_cond")
           ELSE IF FindUnits(qin) = <<>>
           THEN qout' = ReaderRaised("IndexError: units")
           ELSE qout' = [pc |-> "returned", exc |-> "",
                         df_cmat |-> s2[1],
                         units |-> FindUnits(qin)[1],
                         design_variation |-> DesignVariation(qin),
                         df_cond |-> IF Len(s2) > 1 THEN s2[2] ELSE NoTable]
    /\ UNCHANGED <<qin, coreVars, chiVars, kidxVars, fitVars,
                 periodicVars, tableVars, qubitVars>>

InitReader ==
    /\ qin \in ReaderArgs
    /\ qout = ReaderReady
    /\ CoreIdle /\ ChiIdle /\ KidxIdle /\ FitIdle /\ GuiIdle

NextReader == ReadCall

SpecReader == InitReader /\ [][NextReader]_vars

----------------------------------------------------------------------------
(* chi(g, wr, w01, w12) called directly                                    *)
(*                                                                         *)
(* Each frequency argument is a Python number ("float") or a NumPy scalar  *)
(* or array ("numpy").  A division by zero of two Python numbers raises    *)
(* ZeroDivisionError; a division in which a NumPy value takes part gives   *)
(* inf or nan and a RuntimeWarning.                                        *)
(***************************************************************************)

NumberTypes == {"float", "numpy"}

ChiArgs ==
    [g : {1, 2}, wr : {3, 5}, w01 : {3, 5}, w12 : {3, 4},
     wrType : NumberTypes, w01Type : NumberTypes, w12Type : NumberTypes]

\* mutant: Python numbers divide like NumPy values
PythonDivisionLenient(xType, yType, x, y) == FALSE

\* 1 / (x - y), 1 / (x + y), ... / (x**2 - y**2) of two Python numbers
PythonDivisionByZero(xType, yType, x, y) ==
    /\ xType = "float" /\ yType = "float"
    /\ (x = y \/ x + y = 0)

\* the divisions of lines 142-147
ChiRaises(a) ==
    \/ PythonDivisionByZero(a.w01Type, a.wrType, a.w01, a.wr)
    \/ PythonDivisionByZero(a.w12Type, a.wrType, a.w12, a.wr)

ChiReady == [pc |-> "ready", exc |-> "", chi |-> R(0)]

\* One direct call of chi
ChiCall ==
    /\ cout.pc = "ready"
    /\ IF ChiRaises(cin)
       THEN cout' = [pc |-> "raised", exc |-> "ZeroDivisionError", chi |-> R(0)]
       ELSE cout' = [pc |-> "returned", exc |-> "",
                     chi |-> Chi(R(cin.g), R(cin.wr), R(cin.w01), R(cin.w12))]
    /\ UNCHANGED <<cin, coreVars, readerVars, kidxVars, fitVars,
                 periodicVars, tableVars, qubitVars>>

InitChi ==
    /\ cin \in ChiArgs
    /\ cout = ChiReady
    /\ CoreIdle /\ ReaderIdle /\ KidxIdle /\ FitIdle /\ GuiIdle

NextChi == ChiCall

SpecChi == InitChi /\ [][NextChi]_vars

\* chi called directly and from the reducer
SpecDispersive == (InitChi \/ InitReducer) /\ [][NextChi \/ NextReducer]_vars

----------------------------------------------------------------------------
(* kidx(m, my_ng) of transmon_analytics.py: the index passed to the        *)
(* Mathieu characteristic function.                                        *)
(*                                                                         *)
(* The offset charge is a multiple of 1/4: my_ng is kept as the integer    *)
(* ng4 = 4 * my_ng (the grids ng and ng_periodic are the even ng4).  The   *)
(* level m is a non-negative integer.  The float result is a rational.     *)
(***************************************************************************)

\* largest level m
MaxLevel == 7

\* largest offset charge |my_ng|, in quarters
MaxNg4 == 8

KidxArgs == [m : 0..MaxLevel, ng4 : (0 - MaxNg4)..MaxNg4]

\* my_ng
NgOf(ng4) == Norm(<<ng4, 4>>)

\* x % 2.0 of a float that is a whole number: the sign of the divisor
FMod2(x) == x % 2

\* np.sign
Sign(x) == IF x > 0 THEN 1 ELSE IF x < 0 THEN 0 - 1 ELSE 0

\* (-1.0)**e for a whole number e
MinusOneTo(e) == IF e % 2 = 0 THEN 1 ELSE 0 - 1

\* mutant: the parity term is dropped
KidxRawNoParity(m, ng4) ==
    IF ng4 = 0 THEN R(m + 1)
    ELSE RAdd(R(m + 1 - FMod2(m + 1)),
              RMul(RMul(R(2), NgOf(ng4)),
                   R(MinusOneTo(m - ((Sign(ng4) - 1) \div 2)))))

\* mutant: the exponent ignores the sign of my_ng
KidxRawNoSign(m, ng4) ==
    IF ng4 = 0 THEN R(m + 1 - FMod2(m + 1))
    ELSE RAdd(R(m + 1 - FMod2(m + 1)),
              RMul(RMul(R(2), NgOf(ng4)), R(MinusOneTo(m))))

\* kidx_raw(m, my_ng); 0.5 * (np.sign(my_ng) - 1.0) is 0 or -1 for
\* my_ng # 0
KidxRaw(m, ng4) ==
    IF ng4 = 0 THEN R(m + 1 - FMod2(m + 1))
    ELSE RAdd(R(m + 1 - FMod2(m + 1)),
              RMul(RMul(R(2), NgOf(ng4)),
                   R(MinusOneTo(m - ((Sign(ng4) - 1) \div 2)))))

\* kidx(m, my_ng)
Kidx(m, ng4) == KidxRaw(m, ng4)

KidxReady == [pc |-> "ready", index |-> R(0 - 1)]

\* One call of kidx(m, my_ng)
KidxCall ==
    /\ kout.pc = "ready"
    /\ kout' = [pc |-> "returned", index |-> Kidx(kin.m, kin.ng4)]
    /\ UNCHANGED <<kin, coreVars, readerVars, chiVars, fitVars,
                 periodicVars, tableVars, qubitVars>>

InitKidx ==
    /\ kin \in KidxArgs
    /\ kout = KidxReady
    /\ CoreIdle /\ ReaderIdle /\ ChiIdle /\ FitIdle /\ GuiIdle

NextKidx == KidxCall

SpecKidx == InitKidx /\ [][NextKidx]_vars

----------------------------------------------------------------------------
(* The parameter fitter: get_C_and_Ic, cos_to_mega_and_delta               *)
(*                                                                         *)
(* scipy.optimize.minimize is a loop of iterations; an iteration evaluates *)
(* the objective at trial points and accepts one of them as the new        *)
(* iterate x.  It ends when it has converged (success), when the number of *)
(* iterations has reached maxiter, or when it can make no progress (both   *)
(* without success), and hands back its last iterate in every case.  The   *)
(* points it tries and the values the level solver returns at N = 51 are   *)
(* drawn from small sets.  Frequencies in MHz, C in fF, Ic in nA.          *)
(***************************************************************************)

\* options={'maxiter': 100}
MaxIter == 100

\* levels_vs_ng_real_units(Cin, ICin, N=51)
FitGrid == 51

\* the points (C, Ic) the optimizer may try
TrialPoints == [C : {0, 65, 100}, Ic : {20, 30}]

FitArgs == [Cin_est : {0, 65}, Icin_est : {20}, f01 : {5000}, f02on2 : {4850}]

\* fqubitGHz (as MHz) and anharMHz of the level solver at a trial point
FitFqVals == {5000, 5100}

FitAnharVals == {0 - 300, 0 - 200}

\* the square of cos_to_mega_and_delta:
\* (fqubitGHz - f01)**2 + (fqubitGHz + anharMHz / 2. / 1e3 - f02on2)**2
Cost2(fq, anhar, f01, f02on2) ==
    (fq - f01) * (fq - f01)
        + (fq + (anhar \div 2) - f02on2) * (fq + (anhar \div 2) - f02on2)

\* Ec = e**2 / 2 / C of the level solver: for C = 0 the matrix H holds inf
\* and nan, and the solver's check raises
ObjectiveRaises(point) == point.C = 0

NoCall == [C |-> 0 - 1, Ic |-> 0 - 1, N |-> 0]

NoPoint == [C |-> 0 - 1, Ic |-> 0 - 1]

FitReady ==
    [pc |-> "ready", exc |-> "", nit |-> 0, x |-> NoPoint, trial |-> NoPoint,
     call |-> NoCall, cost2 |-> 0 - 1, success |-> FALSE, result |-> NoPoint]

\* mutant: the point is returned only when the optimizer has converged
FitResultIfConverged(x, success) == IF success THEN x ELSE NoPoint

\* return xrr.x
FitResult(x, success) == x

\* opt.minimize(..., [Cin_est, Icin_est], ...) starts at the initial guess
FitStart ==
    /\ fst.pc = "ready"
    /\ fst' = [fst EXCEPT !.pc = "evaluate",
                          !.x = [C |-> fin.Cin_est, Ic |-> fin.Icin_est],
                          !.trial = [C |-> fin.Cin_est, Ic |-> fin.Icin_est]]
    /\ UNCHANGED <<fin, coreVars, readerVars, chiVars, kidxVars,
                 periodicVars, tableVars, qubitVars>>

\* One evaluation of the objective: cos_to_mega_and_delta(x[0], x[1], f01,
\* f02on2) runs levels_vs_ng_real_units(Cin, ICin, N=51)
FitEvaluate ==
    /\ fst.pc = "evaluate"
    /\ IF ObjectiveRaises(fst.trial)
       THEN fst' = [fst EXCEPT
                !.pc = "raised",
                !.exc = "Exception: Hamiltonian is not Hermitian",
                !.call = [C |-> fst.trial.C, Ic |-> fst.trial.Ic, N |-> FitGrid]]
       ELSE \E fq \in FitFqVals, anhar \in FitAnharVals :
              fst' = [fst EXCEPT
                !.pc = "decide",
                !.call = [C |-> fst.trial.C, Ic |-> fst.trial.Ic, N |-> FitGrid],
                !.cost2 = Cost2(fq, anhar, fin.f01, fin.f02on2)]
    /\ UNCHANGED <<fin, coreVars, readerVars, chiVars, kidxVars,
                 periodicVars, tableVars, qubitVars>>

\* The optimizer tries another point within the iteration
FitProbe ==
    /\ fst.pc = "decide" /\ fst.nit < MaxIter
    /\ \E point \in TrialPoints : fst' = [fst EXCEPT !.pc = "evaluate", !.trial = point]
    /\ UNCHANGED <<fin, coreVars, readerVars, chiVars, kidxVars,
                 periodicVars, tableVars, qubitVars>>

\* The optimizer accepts the point it has evaluated: one more iteration
FitIterate ==
    /\ fst.pc = "decide" /\ fst.nit < MaxIter
    /\ fst' = [fst EXCEPT !.x = fst.trial, !.nit = fst.nit + 1]
    /\ UNCHANGED <<fin, coreVars, readerVars, chiVars, kidxVars,
                 periodicVars, tableVars, qubitVars>>

\* The optimizer stops: converged, or without success (maxiter reached, no
\* progress)
FitStop ==
    /\ fst.pc = "decide"
    /\ \E converged \in BOOLEAN :
          /\ fst.nit = MaxIter => ~converged
          /\ fst' = [fst EXCEPT !.pc = "finished", !.success = converged]
    /\ UNCHANGED <<fin, coreVars, readerVars, chiVars, kidxVars,
                 periodicVars, tableVars, qubitVars>>

\* return xrr.x
FitReturn ==
    /\ fst.pc = "finished"
    /\ fst' = [fst EXCEPT !.pc = "returned",
                          !.result = FitResult(fst.x, fst.success)]
    /\ UNCHANGED <<fin, coreVars, readerVars, chiVars, kidxVars,
                 periodicVars, tableVars, qubitVars>>

InitFit ==
    /\ fin \in FitArgs
    /\ fst = FitReady
    /\ CoreIdle /\ ReaderIdle /\ ChiIdle /\ KidxIdle /\ GuiIdle

NextFit == FitStart \/ FitEvaluate \/ FitProbe \/ FitIterate \/ FitStop \/ FitReturn

SpecFit == InitFit /\ [][NextFit]_vars

----------------------------------------------------------------------------
(* transmon_analytics: the module-level code that samples the four lowest
   levels on the coarse grid and extends them periodically.  mathieu_a is a
   library function; its values at the whole indices are drawn from a small
   set. *)

\* ng = np.linspace(-0.5, 0.5, 3): the number of samples
NgPoints == 3

\* [None] * 9
PeriodicPoints == 9

\* define the charging energy
E_C == 1

\* None, distinct from every number <<n, d>>
None == <<>>

\* the levels m of E0 .. E3
EnergyLevels == 0..3

MathieuIndices == 0..4

MathieuVals == {0 - 1, 0, 2}

PeriodicArgs == [mathieu_a : [MathieuIndices -> MathieuVals]]

\* ng[i], in quarters: -0.5, 0, 0.5
NgGrid(i) == 2 * i - 2

\* transmon_eigenvalue(m, my_ng); the index is whole on the grid
TransmonEigenvalue(m, ng4) ==
    LET index == Kidx(m, ng4)
    IN  RMul(R(E_C), R(pin.mathieu_a[index[1]]))

\* l[k] of a Python list held as a sequence
PyAt(l, k) == l[k + 1]

\* mutant: entry i is copied from its neighbour
PeriodSourceNeighbour(i) == i - 1

\* E0_periodic[i] = E0_periodic[i - 2]
PeriodSource(i) == i - 2

PeriodicReady ==
    [pc |-> "raw", i |-> 0,
     E |-> [m \in EnergyLevels |-> <<>>],
     E_periodic |-> [m \in EnergyLevels |-> [i \in 0..(PeriodicPoints - 1) |-> None]]]

\* the two seeds written in every iteration
Seeded(Ep, E) == [Ep EXCEPT ![0] = PyAt(E, 1), ![1] = PyAt(E, 0)]

\* One iteration of `for i in ng`
RawSample ==
    /\ pst.pc = "raw"
    /\ pst' = [pst EXCEPT
                 !.E = [m \in EnergyLevels |->
                          Append(pst.E[m], TransmonEigenvalue(m, NgGrid(pst.i)))],
                 !.i = IF pst.i + 1 < NgPoints THEN pst.i + 1 ELSE 0,
                 !.pc = IF pst.i + 1 < NgPoints THEN "raw" ELSE "periodic"]
    /\ UNCHANGED <<pin, coreVars, analysisVars, tableVars, qubitVars>>

\* One iteration of `for i in range(len(E0_periodic))`
PeriodicFill ==
    /\ pst.pc = "periodic"
    /\ pst' = [pst EXCEPT
                 !.E_periodic = [m \in EnergyLevels |->
                     LET seeded == Seeded(pst.E_periodic[m], pst.E[m])
                     IN  IF pst.i > 1
                         THEN [seeded EXCEPT ![pst.i] = seeded[PeriodSource(pst.i)]]
                         ELSE seeded],
                 !.i = pst.i + 1,
                 !.pc = IF pst.i + 1 < PeriodicPoints THEN "periodic" ELSE "done"]
    /\ UNCHANGED <<pin, coreVars, analysisVars, tableVars, qubitVars>>

InitPeriodic ==
    /\ pin \in PeriodicArgs
    /\ pst = PeriodicReady
    /\ CoreIdle /\ AnalysisIdle /\ TableIdle /\ QubitIdle

NextPeriodic == RawSample \/ PeriodicFill

SpecPeriodic == InitPeriodic /\ [][NextPeriodic]_vars

----------------------------------------------------------------------------
(* The table model of the design's components:
   QTableModel_AllComponents(gui, logger, parent, tableView).
   The design (gui.design, its qlibrary) and the table view are the model's
   environment; components are added to and removed from the qlibrary by
   the rest of the program between the model's calls.  The refresh timer
   calls refresh_auto; a view or any other caller calls rowCount,
   update_view, data and refresh. *)

\* the most components a design holds
MaxComponents == 2

\* the most additions and removals of one behaviour
MaxChanges == 2

\* self.columns
NumColumns == 5

\* self._row_count = -1
NoRowCount == 0 - 1

ComponentStatus == {"good", "failed"}

\* a component of the design: its build status; its name, class, module and
\* id are strings the model does not look into
Components == [status : ComponentStatus]

Roles ==
    {"DisplayRole", "FontRole", "BackgroundRole", "DecorationRole",
     "ToolTipRole", "EditRole"}

\* the cells and roles asked of data(): every column of the display, and for
\* the other roles column 0 and one other column
Queries ==
    {q \in [column : 0..(NumColumns - 1), role : Roles] :
        q.role = "DisplayRole" \/ q.column <= 1}

\* design.qlibrary: the components in the order of its keys
Qlibraries == SeqsUpTo(Components, MaxComponents)

\* a value a call returns
Value(kind, text) == [kind |-> kind, text |-> text]

NoneValue == Value("None", "")

\* int(len(self.design.qlibrary)), or 0 without a design
NumRows(env) == IF env.design THEN Len(env.qlibrary) ELSE 0

\* mutant: rowCount shows the placeholder only when a view is there
RowCountRaisesNever(env) == FALSE

\* rowCount calls self._tableView.show_placeholder_text() or
\* hide_placeholder_text() on each of its paths: an AttributeError when
\* the view is None
RowCountRaises(env) == ~env.view

\* the fields a call leaves of the call before it
Outcome(op, exc, emitted, view_used, result) ==
    [tmod EXCEPT !.op = op, !.exc = exc, !.emitted = emitted,
                 !.view_used = view_used, !.result = result,
                 !.row = 0 - 1, !.role = ""]

\* rowCount(): called by a view or directly
RowCount ==
    /\ tmod.pc = "built"
    /\ IF RowCountRaises(tenv)
       THEN tmod' = Outcome("rowCount", "AttributeError", FALSE, TRUE, NoneValue)
       ELSE tmod' = Outcome("rowCount", "", FALSE, TRUE, Value("int", "num"))
    /\ UNCHANGED <<tenv, coreVars, analysisVars, periodicVars, qubitVars>>

\* update_view(): resizes the columns of the view when there is one
UpdateView ==
    /\ tmod.pc = "built"
    /\ tmod' = Outcome("update_view", "", FALSE, tenv.view, NoneValue)
    /\ UNCHANGED <<tenv, coreVars, analysisVars, periodicVars, qubitVars>>

\* refresh(): modelReset.emit(); a view that shows the model reads the rows
\* again
Refresh ==
    /\ tmod.pc = "built"
    /\ tmod' = [Outcome("refresh", "", TRUE, FALSE, NoneValue) EXCEPT
                  !.reset_rows = IF tenv.view THEN NumRows(tenv) ELSE 0]
    /\ UNCHANGED <<tenv, coreVars, analysisVars, periodicVars, qubitVars>>

\* refresh_auto(): one tick of the timer of _create_timer
RefreshAuto ==
    /\ tmod.pc = "built"
    /\ IF RowCountRaises(tenv)
       THEN tmod' = Outcome("refresh_auto", "AttributeError", FALSE, TRUE, NoneValue)
       ELSE LET new_count == NumRows(tenv)
            IN  IF tmod._row_count # new_count
                THEN tmod' = [Outcome("refresh_auto", "", TRUE, TRUE, NoneValue)
                                EXCEPT !._row_count = new_count,
                                       !.reset_rows = new_count]
                ELSE tmod' = Outcome("refresh_auto", "", FALSE, TRUE, NoneValue)
    /\ UNCHANGED <<tenv, coreVars, analysisVars, periodicVars, qubitVars>>

\* list(self.design.qlibrary.keys())[index.row()]: an IndexError when the
\* row is not below the current length
DataIndexError(env, row) == row >= Len(env.qlibrary)

\* data() calls table.palette() only for the background of a component that
\* is not good, and only when there is a view
DataUsesView(env, component, role) ==
    role = "BackgroundRole" /\ component.status # "good" /\ env.view

\* the value of data() for a component
DataValue(env, component, column, role) ==
    IF role = "DisplayRole"
    THEN IF column = 0 THEN Value("str", "component_name")
         ELSE IF column = 1 THEN Value("str", "__class__.__name__")
         ELSE IF column = 2 THEN Value("str", "__class__.__module__")
         ELSE IF column = 3 THEN Value("str", component.status)
         ELSE IF column = 4 THEN Value("str", "id")
         ELSE NoneValue
    ELSE IF role = "FontRole"
    THEN IF column = 0 THEN Value("QFont", "bold") ELSE NoneValue
    ELSE IF role = "BackgroundRole"
    THEN IF component.status # "good"
         THEN IF ~env.view THEN Value("QBrush", "#FF0000")
              ELSE Value("QBrush", "blend")
         ELSE NoneValue
    ELSE IF role = "DecorationRole"
    THEN IF column = 0 /\ component.status # "good"
         THEN Value("QIcon", ":/basic/warning") ELSE NoneValue
    ELSE IF role = "ToolTipRole"
    THEN Value("str", "tooltip")
    ELSE NoneValue

\* data(index, role); an invalid index has row -1
Data ==
    /\ tmod.pc = "built"
    /\ \E row \in (0 - 1)..MaxComponents, q \in Queries :
          tmod' =
            [(IF row < 0 \/ ~tenv.design
              THEN Outcome("data", "", FALSE, FALSE, NoneValue)
              ELSE IF DataIndexError(tenv, row)
              THEN Outcome("data", "IndexError", FALSE, FALSE, NoneValue)
              ELSE LET component == tenv.qlibrary[row + 1]
                   IN  IF DataUsesView(tenv, component, q.role) /\ ~tenv.view
                       THEN Outcome("data", "AttributeError", FALSE, TRUE, NoneValue)
                       ELSE Outcome("data", "", FALSE,
                                    DataUsesView(tenv, component, q.role),
                                    DataValue(tenv, component, q.column, q.role)))
             EXCEPT !.row = row, !.role = q.role]
    /\ UNCHANGED <<tenv, coreVars, analysisVars, periodicVars, qubitVars>>

\* a component is added to design.qlibrary
AddComponent ==
    /\ tenv.changes < MaxChanges
    /\ Len(tenv.qlibrary) < MaxComponents
    /\ \E c \in Components :
          tenv' = [tenv EXCEPT !.qlibrary = Append(tenv.qlibrary, c),
                               !.changes = tenv.changes + 1]
    /\ UNCHANGED <<tmod, coreVars, analysisVars, periodicVars, qubitVars>>

\* q without its entry i
Without(q, i) == SubSeq(q, 1, i - 1) \o SubSeq(q, i + 1, Len(q))

\* a component is removed from design.qlibrary
RemoveComponent ==
    /\ tenv.changes < MaxChanges
    /\ \E i \in DOMAIN tenv.qlibrary :
          tenv' = [tenv EXCEPT !.qlibrary = Without(tenv.qlibrary, i),
                               !.changes = tenv.changes + 1]
    /\ UNCHANGED <<tmod, coreVars, analysisVars, periodicVars, qubitVars>>

\* the model after __init__: no row count yet, the timer started
TableBuilt ==
    [pc |-> "built", _row_count |-> NoRowCount, reset_rows |-> 0,
     op |-> "__init__", exc |-> "", emitted |-> FALSE, view_used |-> FALSE,
     result |-> NoneValue, row |-> 0 - 1, role |-> ""]

TableEnvs ==
    [pc : {"built"}, design : BOOLEAN, view : BOOLEAN, qlibrary : Qlibraries,
     changes : {0}]

InitTable ==
    /\ tenv \in TableEnvs
    /\ tmod = TableBuilt
    /\ CoreIdle /\ AnalysisIdle /\ PeriodicIdle /\ QubitIdle

NextTable ==
    \/ RefreshAuto \/ RowCount \/ UpdateView \/ Refresh \/ Data
    \/ AddComponent \/ RemoveComponent

SpecTable == InitTable /\ [][NextTable]_vars

\* the timer of _create_timer fires every 500 ms for as long as the model
\* lives
SpecTableTimer == SpecTable /\ WF_vars(RefreshAuto)

----------------------------------------------------------------------------
(* BaseQubit(design, name, options, options_connection_pads, make).
   A dict of pad options is a function from its keys to their values, all
   of them plain strings; what is shared between dicts is shown by the
   objects of the heap: options.connection_pads maps a pad name to the
   number of the object that holds the pad's options, and object 0 is
   design.template_options[class_name]['_default_connection_pads'].
   QComponent.__init__ and Dict.update are called, not defined, in
   qubit.py: the options after the base initialiser are a copy of the
   template overridden by the user's options, and update merges a dict
   into another key by key, as the docstrings of BaseQubit describe. *)

PadNames == {"a", "b"}

\* the keys of the defaults of the class, and the keys a user gives
DefaultKeys == {"x", "y"}

UserKeys == {"x", "z"}

\* the functions from a part of S to V
SubMaps(S, Vals) == UNION {[T -> Vals] : T \in SUBSET S}

\* _default_connection_pads of the class
Defaults == [k \in DefaultKeys |-> "default"]

\* connection pads a user passes: a pad name to a dict of options
PadArgs(v) == SubMaps(PadNames, SubMaps(UserKeys, {v}))

QubitArgs ==
    [registered : BOOLEAN, make : BOOLEAN, template_has_defaults : BOOLEAN,
     options : PadArgs("options"),
     options_connection_pads_is_None : BOOLEAN,
     options_connection_pads : PadArgs("options_connection_pads")]

\* the arguments Python can pass: None has no entries
QubitInputs ==
    {a \in QubitArgs :
        a.options_connection_pads_is_None => a.options_connection_pads = <<>>}

\* d.update(e) of dicts with plain values
DictUpdate(d, e) ==
    [k \in DOMAIN d \cup DOMAIN e |-> IF k \in DOMAIN e THEN e[k] ELSE d[k]]

\* the object that holds the options a user gave for a pad
PadObject(name) == IF name = "a" THEN 1 ELSE 2

\* the first object a deepcopy creates
FirstCopy == 3

NoDict == <<>>

\* the objects before the call: the defaults in the template
HeapAtStart(a) ==
    [id \in 0..4 |->
        IF id = 0 /\ a.template_has_defaults THEN Defaults ELSE NoDict]

\* self.options after super().__init__(design, name, options=options,
\* make=False): the template's connection_pads=Dict() with the user's pads
BaseHeap(a) ==
    [id \in 0..4 |->
        IF \E name \in DOMAIN a.options : PadObject(name) = id
        THEN a.options[CHOOSE name \in DOMAIN a.options : PadObject(name) = id]
        ELSE HeapAtStart(a)[id]]

BasePads(a) == [name \in DOMAIN a.options |-> PadObject(name)]

\* the object a pad gets: deepcopy makes a new one
\* mutant: the object copied is used itself
SameObject(source, fresh) == source

\* deepcopy(...): a new object
DeepCopyObject(source, fresh) == fresh

\* mutant: the defaults override what the user gave
PadOptionsDefaultsWin(defaults, my_options_connection_pads) ==
    DictUpdate(my_options_connection_pads, defaults)

\* deepcopy(defaults) and then .update(my_options_connection_pads)
PadOptions(defaults, my_options_connection_pads) ==
    DictUpdate(defaults, my_options_connection_pads)

\* mutant: the component is rebuilt whatever make is
RebuildAlways(make) == TRUE

\* if make: self.rebuild()
ShouldRebuild(make) == make

\* the order in which the loop meets the pads
PadOrder == <<"a", "b">>

\* for name in self.options.connection_pads: the pads from the i-th on
RECURSIVE ApplyDefaults(_, _)
ApplyDefaults(st, i) ==
    IF i > Len(PadOrder) THEN st
    ELSE LET name == PadOrder[i]
         IN  IF name \notin DOMAIN st.connection_pads THEN ApplyDefaults(st, i + 1)
             ELSE LET my_options_connection_pads == st.heap[st.connection_pads[name]]
                      object == DeepCopyObject(0, st.next)
                  IN  ApplyDefaults(
                        [st EXCEPT
                           !.heap[object] =
                               PadOptions(st.heap[0], my_options_connection_pads),
                           !.connection_pads[name] = object,
                           !.next = st.next + 1],
                        i + 1)

QubitStart(a) ==
    [pc |-> "start", status |-> "", base_make |-> "", calls |-> <<>>,
     exc |-> "", connection_pads |-> <<>>,
     has_default_connection_pads |-> FALSE,
     heap |-> HeapAtStart(a), next |-> FirstCopy, stored |-> ""]

\* super().__init__(design, name, options=options, make=False); a component
\* the design did not register is left 'Not Built'
BaseInit ==
    /\ ust.pc = "start"
    /\ ust' = [ust EXCEPT
                 !.pc = "based",
                 !.status = IF uin.registered THEN "Initialization Successful"
                            ELSE "Not Built",
                 !.base_make = "False",
                 !.calls = <<"super().__init__">>,
                 !.connection_pads = BasePads(uin),
                 !.has_default_connection_pads = uin.template_has_defaults,
                 !.heap = BaseHeap(uin)]
    /\ UNCHANGED <<uin, coreVars, analysisVars, periodicVars, tableVars>>

\* if self.status == 'Not Built': return None
NotBuiltReturn ==
    /\ ust.pc = "based" /\ ust.status = "Not Built"
    /\ ust' = [ust EXCEPT !.pc = "returned"]
    /\ UNCHANGED <<uin, coreVars, analysisVars, periodicVars, tableVars>>

\* if options_connection_pads:
\*     self.options.connection_pads.update(options_connection_pads)
UpdateConnectionPads ==
    /\ ust.pc = "based" /\ ust.status # "Not Built"
    /\ LET given == uin.options_connection_pads
       IN  IF uin.options_connection_pads_is_None \/ given = <<>>
           THEN ust' = [ust EXCEPT !.pc = "updated"]
           ELSE ust' = [ust EXCEPT
                  !.pc = "updated",
                  !.calls = Append(ust.calls, "connection_pads.update"),
                  !.connection_pads =
                      [name \in DOMAIN ust.connection_pads \cup DOMAIN given |->
                          PadObject(name)],
                  !.heap =
                      [id \in DOMAIN ust.heap |->
                          IF \E name \in DOMAIN given : PadObject(name) = id
                          THEN LET name == CHOOSE n \in DOMAIN given :
                                               PadObject(n) = id
                               IN  IF name \in DOMAIN ust.connection_pads
                                   THEN DictUpdate(ust.heap[id], given[name])
                                   ELSE given[name]
                          ELSE ust.heap[id]]]
    /\ UNCHANGED <<uin, coreVars, analysisVars, periodicVars, tableVars>>

\* self._set_options_connection_pads(): the assert, the del, the loop
SetOptionsConnectionPads ==
    /\ ust.pc = "updated"
    /\ IF ~uin.template_has_defaults
       THEN ust' = [ust EXCEPT
                      !.pc = "raised", !.exc = "AssertionError",
                      !.calls = Append(ust.calls, "_set_options_connection_pads")]
       ELSE ust' = [ApplyDefaults(ust, 1) EXCEPT
                      !.pc = "applied",
                      !.has_default_connection_pads = FALSE,
                      !.calls = Append(ust.calls, "_set_options_connection_pads")]
    /\ UNCHANGED <<uin, coreVars, analysisVars, periodicVars, tableVars>>

\* if make: self.rebuild()
Rebuild ==
    /\ ust.pc = "applied" /\ ShouldRebuild(uin.make)
    /\ ust' = [ust EXCEPT !.pc = "returned",
                          !.calls = Append(ust.calls, "rebuild")]
    /\ UNCHANGED <<uin, coreVars, analysisVars, periodicVars, tableVars>>

\* the end of __init__ when make is false
QubitReturn ==
    /\ ust.pc = "applied" /\ ~ShouldRebuild(uin.make)
    /\ ust' = [ust EXCEPT !.pc = "returned"]
    /\ UNCHANGED <<uin, coreVars, analysisVars, periodicVars, tableVars>>

\* later, the program sets one option of one pad:
\* q.options.connection_pads[name][key] = value
PadStore ==
    /\ ust.pc = "returned" /\ ust.status # "Not Built"
    /\ \E name \in DOMAIN ust.connection_pads, key \in DefaultKeys \cup UserKeys :
          ust' = [ust EXCEPT
                    !.pc = "stored", !.stored = name,
                    !.heap[ust.connection_pads[name]] =
                        DictUpdate(@, [k \in {key} |-> "stored"])]
    /\ UNCHANGED <<uin, coreVars, analysisVars, periodicVars, tableVars>>

InitQubit ==
    /\ uin \in QubitInputs
    /\ ust = QubitStart(uin)
    /\ CoreIdle /\ AnalysisIdle /\ PeriodicIdle /\ TableIdle

NextQubit ==
    \/ BaseInit \/ NotBuiltReturn \/ UpdateConnectionPads
    \/ SetOptionsConnectionPads \/ Rebuild \/ QubitReturn \/ PadStore

SpecQubit == InitQubit /\ [][NextQubit]_vars

----------------------------------------------------------------------------
(* The routines together: each behaviour exercises one of them *)

Init ==
    \/ InitReducer \/ InitSolver \/ InitReorder
    \/ InitReader \/ InitChi \/ InitKidx \/ InitFit
    \/ InitPeriodic \/ InitTable \/ InitQubit

Next ==
    \/ NextReducer \/ NextSolver \/ NextReorder
    \/ NextReader \/ NextChi \/ NextKidx \/ NextFit
    \/ NextPeriodic \/ NextTable \/ NextQubit

Spec == Init /\ [][Next]_vars

----------------------------------------------------------------------------
(* Claims about the reducer, checked under SpecReducer *)

ReducerDone == rout.pc # "ready"

ReducerRaised(exc) == rout.pc = "raised" /\ rout.exc = exc /\ rout.ham = NoHam

\* C1: the reducer raises a ValueError for every N < 0, whatever the size of
\* the matrix, and for every N >= 0 whose matrix has a size other than N + 3;
\* in both cases nothing is computed and no ham_dict is returned.
C1_ShapeCheckRaises ==
    ReducerDone =>
        /\ rin.N < 0 => ReducerRaised("ValueError: N must positive")
        /\ (rin.N >= 0 /\ Len0(rin.capMatrix) # rin.N + 3) =>
               ReducerRaised("ValueError: Capacitance matrix is not the right size")
        /\ (rin.N < 0 \/ Len0(rin.capMatrix) # rin.N + 3) =>
               rout.ground_index = 0 - 1 /\ rout.wr = <<>>

\* C1 witness: N = 1 with a 3x3 matrix has raised the size error
C1_Witness ==
    /\ rin.N = 1 /\ Len0(rin.capMatrix) = 3
    /\ ReducerRaised("ValueError: Capacitance matrix is not the right size")

\* C2 as stated: for N >= 1 the readout pad is read at index N-1, the ground
\* at index N and the qubit pads at indices N+1 and N+2.
C2_SpecOrder ==
    (rout.pc = "returned" /\ rin.N >= 1) =>
        /\ rout.bus_index[0] = rin.N - 1
        /\ rout.ground_index = rin.N
        /\ rout.qubit_index = [k \in 0..1 |-> rin.N + 1 + k]

\* C2 amended: for N >= 1 the reducer reads the matrix in the order
\* {bus pads at 0..N-2, ground at N-1, qubit pads at N and N+1, readout pad
\* last, at N+2}, the order its docstring gives.
C2_CodeOrder ==
    (rout.pc = "returned" /\ rin.N >= 1) =>
        /\ rout.ground_index = rin.N - 1
        /\ rout.qubit_index = [k \in 0..1 |-> rin.N + k]
        /\ rout.bus_index[0] = rin.N + 2
        /\ \A ii \in 1..(rin.N - 1) : rout.bus_index[ii] = ii - 1
        /\ \A k \in 0..1 :
              /\ rout.Cg[k] = 0 - rin.capMatrix[rin.N + k][rin.N - 1]
              /\ rout.Cbus[k][0] = 0 - rin.capMatrix[rin.N + k][rin.N + 2]
              /\ \A ii \in 1..(rin.N - 1) :
                    rout.Cbus[k][ii] = 0 - rin.capMatrix[rin.N + k][ii - 1]
        /\ rout.Cs = 0 - rin.capMatrix[rin.N][rin.N + 1]

\* C2 witness: a call with two ports (one bus, the readout) has returned
C2_Witness ==
    /\ rout.pc = "returned" /\ rin.N = 2
    /\ rout.ground_index = 1 /\ rout.bus_index = [ii \in 0..1 |-> IF ii = 0 THEN 4 ELSE 0]

\* the lists fit the port count: fb reaches index N-2, and no truthy flag of
\* res_L4_corr sits at an index >= N
ListsFit ==
    /\ rin.fb.isScalar \/ Len(rin.fb.l) >= rin.N - 1
    /\ \A i \in 1..Len(rin.res_L4_corr.l) : rin.res_L4_corr.l[i] => i <= rin.N

RightShape == rin.N >= 0 /\ Len0(rin.capMatrix) = rin.N + 3

\* C3 as stated: with N >= 0 and a matrix of size N+3 the call returns
\* ham_dict whatever fb and res_L4_corr are.
C3_NoOtherFailure == (ReducerDone /\ RightShape) => rout.pc = "returned"

\* C3 amended: with N >= 0 and a matrix of size N+3 the port loops raise no
\* IndexError, and the call returns ham_dict, exactly when fb is a scalar or
\* a list of at least N-1 entries and res_L4_corr is None or a list with no
\* truthy flag at an index >= N; otherwise the call raises an IndexError.
C3_ReturnsIffListsFit ==
    (ReducerDone /\ RightShape) =>
        /\ ListsFit <=> rout.pc = "returned"
        /\ ~ListsFit <=>
              (rout.pc = "raised" /\ rout.exc \in {"IndexError: fb",
                                                   "IndexError: res_L4_corr"})

\* C3 witness: three ports, fb a list of two, three flags: returned
C3_Witness ==
    /\ rout.pc = "returned" /\ rin.N = 3
    /\ ~rin.fb.isScalar /\ Len(rin.fb.l) = 2
    /\ rin.res_L4_corr.l = <<TRUE, FALSE, TRUE>>

\* res_L4_corr as documented: None, or a list of length N
L4AsDocumented == rin.res_L4_corr.isNone \/ Len(rin.res_L4_corr.l) = rin.N

----------------------------------------------------------------------------
(* Claims about the level solver, checked under SpecSolver *)

Samples == 0..(sin.N - 1)

Level1 == {sst.elvls[1][i] : i \in Samples}

\* C5: level 0 of the levels table is exactly zero for every offset-charge
\* sample, and the levels of every sample already computed ascend from it,
\* because the eigenvalues are sorted and the smallest is subtracted.
C5_GroundLevelZero ==
    /\ \A i \in Samples : sst.elvls[0][i] = 0
    /\ \A i \in Samples : i < sst.iindex =>
          \A k \in 1..(dim - 1) : sst.elvls[k - 1][i] <= sst.elvls[k][i]

\* C5 witness: a full table of three samples whose level 1 is above zero
C5_Witness ==
    /\ sst.pc = "returned" /\ sin.N = 3
    /\ \A i \in Samples : sst.elvls[0][i] = 0 /\ sst.elvls[1][i] > 0

\* C6 as stated: the dispersion is the peak-to-peak variation of level 1,
\* its maximum over the grid minus its minimum over the grid.
C6_PeakToPeak ==
    sst.pc = "returned" => sst.disp = 1000000 * (MaxOf(Level1) - MinOf(Level1))

\* C6 amended: the dispersion is level 1 at the first sample (ng = -1) minus
\* the minimum of level 1 over the grid; it is the peak-to-peak variation
\* exactly when the first sample attains the maximum of level 1.
C6_DropBelowFirstSample ==
    sst.pc = "returned" =>
        /\ sst.disp = 1000000 * (sst.elvls[1][0] - MinOf(Level1))
        /\ (sst.disp = 1000000 * (MaxOf(Level1) - MinOf(Level1)))
              <=> (sst.elvls[1][0] = MaxOf(Level1))

\* C6 witness: a returned table whose level 1 lies below the first sample at
\* one sample and above it at another
C6_Witness ==
    /\ sst.pc = "returned" /\ sin.N = 3
    /\ sst.elvls[1][1] < sst.elvls[1][0]
    /\ sst.elvls[1][2] > sst.elvls[1][0]
    /\ sst.disp = 1000000 * (sst.elvls[1][0] - sst.elvls[1][1])

\* C7: the anharmonicity is the mean over the grid of
\* (level 2 - level 0 - 2 * level 1), in MHz, for every grid size N >= 1.
C7_AnharmonicityMean ==
    sst.pc = "returned" =>
        sst.anharMHz =
            Norm(<<SumInt([i \in Samples |-> sst.elvls[2][i] - sst.elvls[0][i]
                                              - 2 * sst.elvls[1][i]],
                          0, sin.N - 1),
                   sin.N>>)

\* C7 witness: a returned call on three samples with a negative anharmonicity
C7_Witness ==
    /\ sst.pc = "returned" /\ sin.N = 3
    /\ sst.anharMHz[1] < 0
    /\ \E i \in Samples : sst.elvls[2][i] # sst.elvls[2][0]

\* C8: the Hamiltonian built for every offset-charge sample equals its
\* conjugate transpose, so 'Matrix is not Hermitian' is never raised; a
\* matrix failing the check raises before its sample is diagonalised.
C8_AlwaysHermitian ==
    /\ sst.pc # "raised"
    /\ sst.H # NoMatrix => IsHermitian(sst.H)
    /\ sst.pc = "raised" =>
          \A k \in 0..(dim - 1) : sst.elvls[k][sst.iindex] = 0

\* C8 witness: the matrix of a sample with a non-integer offset charge and a
\* non-zero Josephson term has passed the check
C8_Witness ==
    /\ sst.pc = "loop" /\ sin.N = 3 /\ sst.iindex = 1 /\ sin.IC # 0
    /\ sst.H # NoMatrix
    /\ sst.H[0][1] # R(0) /\ sst.H[0][1] = sst.H[1][0]

----------------------------------------------------------------------------
(* Claims about the basis reorderer, checked under SpecReorder *)

IsPermutation(idx, n) == Len(idx) = n /\ Elems(idx) = 0..(n - 1)

\* the inverse of a permutation idx: position of each index, 0-based
InversePerm(idx) ==
    [k \in 1..Len(idx) |-> (CHOOSE p \in 1..Len(idx) : idx[p] = k - 1) - 1]

\* a table with rows, columns and both label lists permuted by perm
PermuteFrame(df, perm) ==
    [values |-> [r \in 0..(Len(perm) - 1) |->
                    [c \in 0..(Len(perm) - 1) |->
                        df.values[perm[r + 1]][perm[c + 1]]]],
     index |-> [r \in 0..(Len(perm) - 1) |-> df.index[perm[r + 1]]],
     columns |-> [c \in 0..(Len(perm) - 1) |-> df.columns[perm[c + 1]]]]

NDim == Len0(bin.df.values)

Sources == AsList(bin.i_from)

\* the entries of idx outside the block of length k that starts at position at
Others(idx, at, k) == SubSeq(idx, 1, at) \o SubSeq(idx, at + k + 1, Len(idx))

\* C9: whenever the reorder is a permutation of the basis, applying the
\* inverse permutation to the returned table restores the values, the row
\* labels and the column labels; and for a move of a single index,
\* df_reorder_matrix_basis(result, i_to, i_from) restores them.
C9_RoundTrip ==
    /\ (bout.pc \in {"reordered", "roundtrip"} /\ IsPermutation(bout.idx, NDim)) =>
          PermuteFrame(bout.df, InversePerm(bout.idx)) = bin.df
    /\ (bout.pc # "ready" /\ ~bin.i_from.isList) => bout.pc # "raised"
    /\ bout.pc = "roundtrip" => bout.back = bin.df

\* C9 witness: a single index moved to another place and moved back
C9_Witness ==
    /\ bout.pc = "roundtrip" /\ NDim = 4
    /\ bin.i_from.v = 0 /\ bin.i_to = 2
    /\ bout.df # bin.df
    /\ bout.back = bin.df

\* C10 as stated: for every list of source indices and every destination
\* i_to, move_index_to returns a permutation of 0..len_-1 with the sources as
\* one block at position i_to, in the order given, the others in their order.
C10_AnyDestination ==
    bout.pc # "ready" =>
        /\ bout.pc # "raised"
        /\ IsPermutation(bout.idx, NDim)
        /\ SubSeq(bout.idx, bin.i_to + 1, bin.i_to + Len(Sources)) = Sources
        /\ Others(bout.idx, bin.i_to, Len(Sources))
              = DeleteAt(Arange(NDim), Elems(Sources), 0)

Distinct(sq) == Cardinality(Elems(sq)) = Len(sq)

\* C10 amended: for k distinct source indices in 0..len_-1 and a destination
\* i_to in 0..len_-k, move_index_to returns a permutation of 0..len_-1 with
\* the sources as one block at position i_to, in the order given, and the
\* other indices in their original order; for i_to > len_-k it raises an
\* IndexError; with a repeated source index that does not raise, the result
\* has more than len_ entries and is no permutation.
C10_BlockAtDestination ==
    bout.pc # "ready" =>
        /\ (Distinct(Sources) /\ bin.i_to <= NDim - Len(Sources)) =>
              /\ bout.pc # "raised"
              /\ IsPermutation(bout.idx, NDim)
              /\ SubSeq(bout.idx, bin.i_to + 1, bin.i_to + Len(Sources)) = Sources
              /\ Others(bout.idx, bin.i_to, Len(Sources))
                    = DeleteAt(Arange(NDim), Elems(Sources), 0)
        /\ (bin.i_to > NDim - Cardinality(Elems(Sources))) <=> bout.pc = "raised"
        /\ (~Distinct(Sources) /\ bout.pc # "raised") =>
              Len(bout.idx) > NDim /\ ~IsPermutation(bout.idx, NDim)

\* C10 witness: two sources, given in descending order, moved as a block
C10_Witness ==
    /\ bout.pc = "reordered" /\ NDim = 4
    /\ bin.i_from.isList /\ bin.i_from.l = <<3, 1>> /\ bin.i_to = 1
    /\ bout.idx = <<0, 3, 1, 2>>

----------------------------------------------------------------------------
(* Further claims about the reorderer, checked under SpecReorder *)

IsSymmetric(arr) ==
    \A r \in DOMAIN arr : \A c \in DOMAIN arr : arr[r][c] = arr[c][r]

\* the table df_reorder_matrix_basis returned, in every state after the call
Reordered == bout.pc \in {"reordered", "roundtrip"}

\* C11: the returned table has one row and one column per entry of idx;
\* its entry (i, j) is the input entry (idx[i], idx[j]), its row label i and
\* column label i are the input labels at idx[i]; a symmetric input gives a
\* symmetric output.
C11_SamePermutation ==
    Reordered =>
        /\ DOMAIN bout.df.values = 0..(Len(bout.idx) - 1)
        /\ \A i \in 0..(Len(bout.idx) - 1) :
              /\ DOMAIN bout.df.values[i] = 0..(Len(bout.idx) - 1)
              /\ \A j \in 0..(Len(bout.idx) - 1) :
                    bout.df.values[i][j]
                        = bin.df.values[bout.idx[i + 1]][bout.idx[j + 1]]
              /\ bout.df.index[i] = bin.df.index[bout.idx[i + 1]]
              /\ bout.df.columns[i] = bin.df.columns[bout.idx[i + 1]]
        /\ IsSymmetric(bin.df.values) => IsSymmetric(bout.df.values)

\* C11 witness: a symmetric table of dimension 4 reordered by a permutation
\* that is not the identity
C11_Witness ==
    /\ bout.pc = "reordered" /\ NDim = 4
    /\ IsSymmetric(bin.df.values)
    /\ bout.idx = <<1, 2, 0, 3>>
    /\ bout.df.values # bin.df.values
    /\ IsSymmetric(bout.df.values)

\* C12: no step of the reorderer or of its caller changes the input table
\* (values, row labels, column labels) or the arguments i_from and i_to: not
\* the call itself, and not a later store into the returned table.
C12_InputUntouched == [][bin' = bin]_vars

\* C12 witness: a value was stored into the returned table, and the input
\* table holds it nowhere
C12_Witness ==
    /\ bout.pc = "written" /\ NDim = 3
    /\ bout.idx = <<0, 1, 2>>
    /\ bout.df.values[1][2] = Written
    /\ \A r \in DOMAIN bin.df.values : \A c \in DOMAIN bin.df.values :
          bin.df.values[r][c] # Written
    /\ bin.i_from = [isList |-> TRUE, v |-> 0, l |-> <<1>>] /\ bin.i_to = 1

----------------------------------------------------------------------------
(* Claims about the Q3D reader, checked under SpecReader *)

\* the positions of the lines of a kind
LinesOf(kind) == {i \in 1..Len(qin.lines) : qin.lines[i].kind = kind}

FirstIn(S) == CHOOSE i \in S : \A j \in S : i <= j

\* the lines after the one marker 'Capacitance Matrix', up to the first
\* marker 'Conductance Matrix' after it or the end of the text
CapBlock ==
    LET m == FirstIn(LinesOf("cap"))
        after == {i \in LinesOf("cond") : i > m}
        last == IF after = {} THEN Len(qin.lines) ELSE FirstIn(after) - 1
    IN  SubSeq(qin.lines, m + 1, last)

\* C13: the call raises at the marker check, returning no tuple, when the
\* text holds no marker 'Capacitance Matrix' or more than one; with exactly
\* one marker the check passes, and a call that returns has parsed the block
\* after the marker.
C13_MarkerOnce ==
    qout.pc # "ready" =>
        /\ Cardinality(LinesOf("cap")) # 1 =>
              qout = ReaderRaised("AssertionError")
        /\ Cardinality(LinesOf("cap")) = 1 =>
              /\ qout.exc # "AssertionError"
              /\ qout.pc = "returned" => qout.df_cmat = CapBlock

\* C13 witness: a text with the marker twice has raised at the check
C13_Witness ==
    /\ qout = ReaderRaised("AssertionError")
    /\ Cardinality(LinesOf("cap")) = 2
    /\ \E i \in LinesOf("row") : i > FirstIn(LinesOf("cap"))

\* the matrices of the text parse: one marker, no block without content
MatricesParse ==
    qout.exc \notin {"AssertionError", "EmptyDataError: df_cmat",
                     "EmptyDataError: df_cond"}

\* C14 as stated: the design variation is the value of the first
\* 'DesignVariation:' line, or else of the first 'Design Variation:' line,
\* and the empty string, without raising, if there is neither.
C14_FirstHeaderLine ==
    (qout.pc # "ready" /\ MatricesParse) =>
        IF LinesOf("dv") # {}
        THEN qout.pc = "returned" =>
                qout.design_variation = qin.lines[FirstIn(LinesOf("dv"))].v
        ELSE IF LinesOf("d_v") # {}
        THEN qout.pc = "returned" =>
                qout.design_variation = qin.lines[FirstIn(LinesOf("d_v"))].v
        ELSE qout.pc = "returned" /\ qout.design_variation = ""

\* the header lines of a kind that end with a newline
EndedLinesOf(kind) ==
    {i \in LinesOf(kind) : i < Len(qin.lines) \/ qin.nl}

\* C14 amended: a call that returns gives the value of the first
\* 'DesignVariation:' line that ends with a newline, or else of the first
\* such 'Design Variation:' line, or else the empty string; and a call
\* whose matrices parse raises exactly when the text has no 'C Units:'
\* entry, whatever its headers.
C14_FirstEndedHeader ==
    (qout.pc # "ready" /\ MatricesParse) =>
        /\ qout.pc = "returned" =>
              qout.design_variation =
                 IF EndedLinesOf("dv") # {}
                 THEN qin.lines[FirstIn(EndedLinesOf("dv"))].v
                 ELSE IF EndedLinesOf("d_v") # {}
                 THEN qin.lines[FirstIn(EndedLinesOf("d_v"))].v
                 ELSE ""
        /\ qout.pc = "raised" <=> LinesOf("units") = {}
        /\ qout.pc = "raised" => qout = ReaderRaised("IndexError: units")

\* C14 witness: 'Design Variation:' precedes two 'DesignVariation:' lines
\* and the value of the first 'DesignVariation:' line is returned
C14_Witness ==
    /\ qout.pc = "returned"
    /\ Len(qin.lines) = 5
    /\ qin.lines[1] = [kind |-> "d_v", v |-> "c"]
    /\ qin.lines[2] = [kind |-> "dv", v |-> "b"]
    /\ qin.lines[3] = [kind |-> "dv", v |-> "a"]
    /\ qin.lines[4].kind = "cap" /\ qin.lines[5].kind = "units"
    /\ qout.design_variation = "b"

----------------------------------------------------------------------------
(* Further claims about the reducer, checked under SpecReducer *)

\* the sum of the reciprocals of the entries 0..n-1 of an array of rationals
RECURSIVE ReciprocalSum(_, _)
ReciprocalSum(t, n) ==
    IF n = 0 THEN R(0) ELSE RAdd(ReciprocalSum(t, n - 1), RDiv(R(1), t[n - 1]))

\* C15: for N >= 1 the readout port 0 has the quality factor 1e4 and every
\* bus port 1..N-1 the quality factor 1e5, the loss rate of a port is its
\* wr over that factor, and the total T1 is the reciprocal of the sum of the
\* reciprocals of the per-port T1.
C15_QualityAndParallelT1 ==
    (rout.pc = "returned" /\ rin.N >= 1) =>
        /\ DOMAIN rout.Qbus = 0..(rin.N - 1)
        /\ rout.Qbus[0] = 10000
        /\ \A i \in 1..(rin.N - 1) : rout.Qbus[i] = 100000
        /\ \A i \in 0..(rin.N - 1) :
              rout.kbus[i] = Norm(<<rout.wr[i], rout.Qbus[i]>>)
        /\ DOMAIN rout.T1bus = 0..(rin.N - 1)
        /\ rout.T1 = RDiv(R(1), ReciprocalSum(rout.T1bus, rin.N))

\* C15 witness: three ports with finite, different per-port T1
C15_Witness ==
    /\ rout.pc = "returned" /\ rin.N = 3
    /\ rout.Qbus = [i \in 0..2 |-> IF i = 0 THEN 10000 ELSE 100000]
    /\ \A i \in 0..2 : rout.T1bus[i][1] > 0 /\ rout.T1bus[i][2] > 0
    /\ rout.T1bus[1] # rout.T1bus[2]
    /\ rout.T1[1] > 0 /\ rout.T1[2] > 0
    /\ \A i \in 0..2 : rout.T1[1] * rout.T1bus[i][2] < rout.T1bus[i][1] * rout.T1[2]

\* the half-wave values of port i: Cr = 0.5*pi/(wr*Zbus), Lr = 1/wr^2/Cr
HalfWaveCr(i) == Norm(<<1, rout.wr[i] * 50>>)

HalfWaveLr(i) == Norm(<<50, rout.wr[i]>>)

FlagOf(i) ==
    /\ ~rin.res_L4_corr.isNone
    /\ i < Len(rin.res_L4_corr.l)
    /\ rin.res_L4_corr.l[i + 1]

\* C17: a port whose res_L4_corr flag is truthy has half the half-wave
\* capacitance and twice the half-wave inductance, so Lr*Cr = 1/wr^2 as
\* before; every other port, and every port when res_L4_corr is None, keeps
\* the half-wave values.
C17_QuarterWave ==
    rout.pc = "returned" =>
        \A i \in 0..(rin.N - 1) :
            /\ FlagOf(i) =>
                  /\ RMul(rout.Cr[i], R(2)) = HalfWaveCr(i)
                  /\ rout.Lr[i] = RMul(HalfWaveLr(i), R(2))
            /\ ~FlagOf(i) =>
                  /\ rout.Cr[i] = HalfWaveCr(i)
                  /\ rout.Lr[i] = HalfWaveLr(i)
            /\ RMul(RMul(rout.Lr[i], rout.Cr[i]), R(rout.wr[i] * rout.wr[i])) = R(1)

\* C17 witness: of two ports the second is a quarter-wave resonator
C17_Witness ==
    /\ rout.pc = "returned" /\ rin.N = 2
    /\ ~rin.res_L4_corr.isNone /\ rin.res_L4_corr.l = <<FALSE, TRUE>>
    /\ rout.wr[1] = 5
    /\ rout.Cr[0] = <<1, 150>> /\ rout.Cr[1] = <<1, 500>>
    /\ rout.Lr[1] = <<20, 1>>

----------------------------------------------------------------------------
(* Claims about chi, checked under SpecDispersive *)

\* a direct call whose resonator frequency equals a transition frequency
DirectDegenerate == cin # IdleChi /\ (cin.wr = cin.w01 \/ cin.wr = cin.w12)

\* port i of a returned reducer call: w01 = wq = 2*pi*fQ and w12 = d + wq
\* with d = 2*pi*alpha (alpha in MHz, the frequencies in GHz)
PortDegenerate(i) ==
    \/ R(rout.wr[i]) = rout.ham.fQ
    \/ R(rout.wr[i]) = RAdd(rout.ham.fQ, RDiv(rout.ham.alpha, R(1000)))

\* C16 as stated: with wr = w01 or wr = w12 chi raises nothing and returns a
\* divergent or undefined value, called directly or from the reducer.
C16_NeverRaises ==
    /\ (cout.pc # "ready" /\ DirectDegenerate) =>
          cout.pc = "returned" /\ cout.chi[2] = 0
    /\ rout.pc = "returned" =>
          \A i \in 0..(rin.N - 1) :
              PortDegenerate(i) => rout.ham.chi_in_MHz[i][2] = 0

\* C16 amended: the coincidence is never reported as such.  In the reducer,
\* whose frequencies are NumPy values, the call returns and chi_in_MHz of
\* the port is infinite or undefined, and finite for every other port.  A
\* direct call raises ZeroDivisionError exactly when the two coinciding
\* frequencies are both Python numbers, and otherwise returns an infinite
\* or undefined value.
C16_RaisesOnlyForPythonNumbers ==
    /\ cout.pc \notin {"ready", "idle"} =>
          /\ cout.pc = "raised" <=>
                \/ (cin.wr = cin.w01 /\ cin.wrType = "float" /\ cin.w01Type = "float")
                \/ (cin.wr = cin.w12 /\ cin.wrType = "float" /\ cin.w12Type = "float")
          /\ cout.pc = "raised" => cout.exc = "ZeroDivisionError"
          /\ cout.pc = "returned" => (DirectDegenerate <=> cout.chi[2] = 0)
    /\ rout.pc = "raised" =>
          rout.exc \in {"ValueError: N must positive",
                        "ValueError: Capacitance matrix is not the right size",
                        "IndexError: fb", "IndexError: res_L4_corr"}
    /\ rout.pc = "returned" =>
          \A i \in 0..(rin.N - 1) :
              PortDegenerate(i) <=> rout.ham.chi_in_MHz[i][2] = 0

\* C16 witness: the reducer has returned an undefined chi for a bus whose
\* resonator sits on the qubit frequency
C16_Witness ==
    /\ rout.pc = "returned" /\ rin.N = 2
    /\ rout.wr[1] = 7 /\ rout.ham.fQ = R(7)
    /\ rout.ham.chi_in_MHz[1][2] = 0
    /\ rout.ham.chi_in_MHz[0][2] # 0

\* a direct call on Python numbers with wr = w01 has raised
C16_DirectWitness ==
    /\ cout.pc = "raised" /\ cout.exc = "ZeroDivisionError"
    /\ cin.wr = cin.w01 /\ cin.wr # cin.w12

----------------------------------------------------------------------------
(* Claims about kidx, checked under SpecKidx *)

\* C20: kidx(m, 0) = m + 1 - ((m + 1) mod 2) for every level m >= 0: the
\* even number among m and m + 1.
C20_KidxAtZero ==
    (kout.pc = "returned" /\ kin.ng4 = 0) =>
        /\ kout.index = R(kin.m + 1 - ((kin.m + 1) % 2))
        /\ kout.index[1] \in {kin.m, kin.m + 1}
        /\ kout.index[1] % 2 = 0

\* C20 witness: kidx(5, 0) = 6 has been returned
C20_Witness ==
    /\ kout.pc = "returned" /\ kin.ng4 = 0
    /\ kin.m = 5 /\ kout.index = R(6)

----------------------------------------------------------------------------
(* Claims about the fitter, checked under SpecFit *)

\* C18: the optimizer runs at most 100 iterations; every evaluation of the
\* objective is a run of the level solver at the trial point with N = 51;
\* the call returns the optimizer's last iterate whether or not it has
\* converged, and raises only out of an evaluation of the objective.
C18_ReturnsFinalPoint ==
    /\ fst.pc # "idle" => fst.nit <= 100
    /\ fst.pc \in {"decide", "raised"} =>
          fst.call = [C |-> fst.trial.C, Ic |-> fst.trial.Ic, N |-> 51]
    /\ fst.pc = "returned" =>
          /\ fst.result = fst.x /\ fst.result \in TrialPoints
          /\ fst.exc = ""
    /\ fst.pc = "raised" => fst.trial.C = 0 /\ fst.result = NoPoint

\* C18 witness: after 100 iterations without convergence the last iterate,
\* which is not the initial guess, has been returned
C18_Witness ==
    /\ fst.pc = "returned" /\ ~fst.success /\ fst.nit = 100
    /\ fst.result = fst.x
    /\ fst.result # [C |-> fin.Cin_est, Ic |-> fin.Icin_est]
    /\ fst.cost2 > 0

----------------------------------------------------------------------------
(* Claims about the results of two reducer calls, checked under SpecReducer *)

\* the keys of ham_dict
HamKeys == {"fQ", "EC", "EJ", "alpha", "dispersion", "gbus", "chi_in_MHz"}

ObjectsOf(objects) == {objects.dict, objects.gbus, objects.chi}

\* C19: a call that returns gives a mapping with exactly the keys fQ, EC,
\* EJ, alpha, dispersion, gbus, chi_in_MHz whose gbus and chi_in_MHz have
\* one entry per port; the dict and the two arrays of a second call are
\* objects other than those of the first, and a store into the second
\* result leaves the first as it was returned.
C19_FreshFlatMapping ==
    /\ rout.pc = "returned" =>
          /\ DOMAIN rout.ham = HamKeys
          /\ DOMAIN rout.ham.gbus = 0..(rin.N - 1)
          /\ DOMAIN rout.ham.chi_in_MHz = 0..(rin.N - 1)
          /\ Cardinality(ObjectsOf(rout.objects)) = 3
    /\ rtwo.pc # "none" =>
          /\ DOMAIN rtwo.ham = HamKeys
          /\ DOMAIN rtwo.ham.gbus = 0..(rin.N - 1)
          /\ ObjectsOf(rout.objects) \cap ObjectsOf(rtwo.objects) = {}
          /\ rout.ham.fQ # Stored
          /\ \A i \in 0..(rin.N - 1) : rout.ham.gbus[i] # Stored
    /\ rtwo.pc = "returned" => rtwo.ham = rout.ham

\* C19 witness: of two results with two ports each, the second was stored
\* into and the first still differs from it only there
C19_Witness ==
    /\ rout.pc = "returned" /\ rtwo.pc = "stored" /\ rin.N = 2
    /\ rtwo.ham.gbus[1] = Stored
    /\ rout.ham.gbus[1] # Stored
    /\ rout.ham.gbus[0] = rtwo.ham.gbus[0]
    /\ [rtwo.ham EXCEPT !.gbus = rout.ham.gbus] = rout.ham

\* the grid ng = np.linspace(-0.5, 0.5, 3), in quarters
OnCoarseGrid == kin.ng4 \in {0 - 2, 0, 2}

\* C23: for every level m >= 0 and every ng of the grid {-0.5, 0, 0.5} the
\* index kidx(m, ng) is a non-negative whole number, the same for ng and
\* -ng: the even number among m, m + 1 at ng = 0 and the odd one at
\* ng = -0.5 and ng = 0.5.
C23_IntegerIndexOnGrid ==
    (kout.pc = "returned" /\ OnCoarseGrid) =>
        /\ kout.index[2] = 1 /\ kout.index[1] >= 0
        /\ kout.index[1] \in {kin.m, kin.m + 1}
        /\ kout.index[1] % 2 = (IF kin.ng4 = 0 THEN 0 ELSE 1)

\* C23 witness: kidx(2, -0.5) = 3 has been returned
C23_Witness ==
    /\ kout.pc = "returned"
    /\ kin.m = 2 /\ kin.ng4 = 0 - 2 /\ kout.index = R(3)

----------------------------------------------------------------------------
(* Claims about the periodic extension, checked under SpecPeriodic *)

\* C21: after the module-level loop each of E0_periodic .. E3_periodic holds
\* 9 entries, none of them None; entry 0 is raw sample 1, entry 1 is raw
\* sample 0, and every entry i >= 2 equals entry i - 2
C21_PeriodTwo ==
    pst.pc = "done" =>
        \A m \in EnergyLevels :
            LET Ep == pst.E_periodic[m]
            IN  /\ DOMAIN Ep = 0..8
                /\ \A i \in DOMAIN Ep : Ep[i] # None
                /\ Ep[0] = PyAt(pst.E[m], 1)
                /\ Ep[1] = PyAt(pst.E[m], 0)
                /\ \A i \in 2..8 : Ep[i] = Ep[i - 2]

\* C21 witness: the loop has finished with two different seeds in E0_periodic
C21_Witness ==
    /\ pst.pc = "done"
    /\ pst.E_periodic[0][0] # pst.E_periodic[0][1]
    /\ pst.E_periodic[0][8] = pst.E_periodic[0][0]
    /\ pst.E_periodic[0][7] = pst.E_periodic[0][1]

----------------------------------------------------------------------------
(* Claims about the order of the ports, checked under SpecReducer *)

\* chi_in_MHz of one port from that port's coupling and frequency
PortChi(i) ==
    LET c == Chi(RDiv(rout.ham.gbus[i], R(1000)), R(rout.wr[i]), rout.ham.fQ,
                 RAdd(RDiv(rout.ham.alpha, R(1000)), rout.ham.fQ))
    IN  IF c = NotFinite THEN NotFinite ELSE RMul(R(2000), c)

\* C22: the per-port quantities are ordered readout first: port 0 is the
\* readout pad (last row and column of the matrix, frequency fr), port
\* i >= 1 is bus pad i (matrix index i - 1, frequency fb[i - 1], or fb when
\* it is a scalar), and gbus and chi_in_MHz have one entry per port in that
\* order, for every N >= 1
C22_ReadoutFirst ==
    (rout.pc = "returned" /\ rin.N >= 1) =>
        LET last == Len0(rin.capMatrix) - 1
            ports == 0..(rin.N - 1)
        IN  /\ rout.wr[0] = rin.fr
            /\ rout.bus_index[0] = last
            /\ \A i \in 1..(rin.N - 1) :
                  /\ rout.bus_index[i] = i - 1
                  /\ rout.wr[i] = IF rin.fb.isScalar THEN rin.fb.v
                                  ELSE rin.fb.l[(i - 1) + 1]
            /\ \A i \in ports, k \in 0..1 :
                  rout.Cbus[k][i] =
                      0 - rin.capMatrix[rout.qubit_index[k]][IF i = 0 THEN last
                                                             ELSE i - 1]
            /\ DOMAIN rout.ham.gbus = ports
            /\ DOMAIN rout.ham.chi_in_MHz = ports
            /\ \A i \in ports : rout.ham.chi_in_MHz[i] = PortChi(i)

\* C22 witness: a call with the readout and two buses of different
\* frequencies and couplings has returned
C22_Witness ==
    /\ rout.pc = "returned" /\ rin.N = 3 /\ ~rin.fb.isScalar
    /\ rout.wr = [i \in 0..2 |-> IF i = 0 THEN 3 ELSE IF i = 1 THEN 5 ELSE 7]
    /\ rout.bus_index = [i \in 0..2 |-> IF i = 0 THEN 5 ELSE i - 1]
    /\ rout.ham.gbus[1] # rout.ham.gbus[2]
    /\ rout.ham.chi_in_MHz[1] # rout.ham.chi_in_MHz[2]

----------------------------------------------------------------------------
(* Claims about the table model of the components, checked under SpecTable
   and, for the claim about the timer, under SpecTableTimer *)

\* what a tick of refresh_auto is to do, from the state before it
TickResetsIffCountDiffers ==
    /\ tmod'.emitted <=> (tmod._row_count # NumRows(tenv))
    /\ tmod'._row_count = NumRows(tenv)

\* C24: refresh_auto emits modelReset if and only if the number of
\* components differs from the cached _row_count, and after every
\* refresh_auto the cached _row_count equals the number of components seen
\* by that call
C24_ResetIffCountDiffers == [][RefreshAuto => TickResetsIffCountDiffers]_vars

\* C24 holds of a model built with a table view
C24_WithView ==
    [][(RefreshAuto /\ tenv.view) => TickResetsIffCountDiffers]_vars

\* C27: data() called with an index that was valid at the last model reset
\* returns a value or None without raising
C27_DataNeverRaises ==
    (tmod.op = "data" /\ tmod.row >= 0 /\ tmod.row < tmod.reset_rows) =>
        tmod.exc = ""

\* the cache agrees with the design and the last tick emitted nothing
Synced ==
    /\ tmod._row_count = NumRows(tenv)
    /\ ~(tmod.op = "refresh_auto" /\ tmod.emitted)

\* C28: with the timer firing for ever, once the number of components has
\* stopped changing (it does in every behaviour: a behaviour makes at most
\* MaxChanges changes) the cached _row_count eventually equals the number of
\* components and stays equal, and refresh_auto emits no modelReset after
\* that
C28_EventuallySynced == <>[]Synced

\* C28 holds of a model built with a table view
C28_WithView == tenv.view => <>[]Synced

\* C30: on a model built with tableView None, update_view completes without
\* using the view, and so does data() with BackgroundRole for a row the
\* design has; rowCount fails, and every tick of refresh_auto fails before it
\* emits or caches anything
C30_ViewNeededForRowCount ==
    [][~tenv.view =>
          /\ UpdateView => (tmod'.exc = "" /\ ~tmod'.view_used)
          /\ (Data /\ tmod'.role = "BackgroundRole") =>
                /\ ~tmod'.view_used
                /\ (tmod'.row < Len(tenv.qlibrary) => tmod'.exc = "")
          /\ RowCount => tmod'.exc = "AttributeError"
          /\ RefreshAuto =>
                /\ tmod'.exc = "AttributeError"
                /\ ~tmod'.emitted
                /\ tmod'._row_count = tmod._row_count]_vars

\* C30 witness: without a view, data() has returned the plain red brush for
\* a component that failed to build, and the cache is still the initial one
C30_Witness ==
    /\ ~tenv.view /\ tenv.design
    /\ tmod.op = "data" /\ tmod.role = "BackgroundRole" /\ tmod.exc = ""
    /\ tmod.result = Value("QBrush", "#FF0000")
    /\ tmod._row_count = NoRowCount

----------------------------------------------------------------------------
(* Claims about BaseQubit, checked under SpecQubit *)

\* the initialisation of a registered component has gone through
QubitInitialised ==
    ust.pc \in {"applied", "returned"} /\ ust.status # "Not Built"

\* what the user gave for a pad: the options, overridden by
\* options_connection_pads
UserGave(name) ==
    LET given == IF name \in DOMAIN uin.options THEN uin.options[name] ELSE <<>>
        easy == IF name \in DOMAIN uin.options_connection_pads
                THEN uin.options_connection_pads[name] ELSE <<>>
    IN  [k \in DOMAIN given \cup DOMAIN easy |->
            IF k \in DOMAIN easy THEN easy[k] ELSE given[k]]

\* the options of a pad
PadOptionsOf(name) == ust.heap[ust.connection_pads[name]]

\* C25: after the initialisation of a registered component, the options of
\* every pad of options.connection_pads are the defaults of the class
\* overridden by what the user gave for that pad in options and in
\* options_connection_pads (the latter first): every key the user gave has
\* the user's value, every other default key its default value
C25_DefaultsOverriddenByUser ==
    QubitInitialised =>
        /\ DOMAIN ust.connection_pads =
               DOMAIN uin.options \cup DOMAIN uin.options_connection_pads
        /\ \A name \in DOMAIN ust.connection_pads :
              LET got == PadOptionsOf(name)
                  user == UserGave(name)
              IN  /\ DOMAIN got = DefaultKeys \cup DOMAIN user
                  /\ \A k \in DOMAIN user : got[k] = user[k]
                  /\ \A k \in DefaultKeys \ DOMAIN user : got[k] = Defaults[k]

\* C25 witness: pad a was given x and z in options and x again in
\* options_connection_pads; it holds x of the latter, the default y, and z
C25_Witness ==
    /\ QubitInitialised
    /\ "a" \in DOMAIN ust.connection_pads
    /\ PadOptionsOf("a") =
           [k \in {"x", "y", "z"} |->
               IF k = "x" THEN "options_connection_pads"
               ELSE IF k = "y" THEN "default" ELSE "options"]

\* the places of a call in the calls made so far
CallsOf(call) == {i \in DOMAIN ust.calls : ust.calls[i] = call}

\* C26: __init__ calls the base initialiser with make=False; it calls
\* rebuild at most once, only when make is true and the status after the
\* base initialiser is not 'Not Built', and only after the defaults of the
\* connection pads have been applied; with the status 'Not Built' it makes
\* no further call and leaves options.connection_pads and
\* _default_connection_pads as the base initialiser left them
C26_RebuildLastAndOnce ==
    /\ ust.pc # "start" =>
          /\ ust.calls[1] = "super().__init__" /\ ust.base_make = "False"
          /\ CallsOf("super().__init__") = {1}
    /\ Cardinality(CallsOf("rebuild")) <= 1
    /\ \A i \in CallsOf("rebuild") :
          /\ uin.make /\ ust.status # "Not Built"
          /\ \E j \in CallsOf("_set_options_connection_pads") : j < i
    /\ ust.status = "Not Built" =>
          /\ ust.pc \in {"based", "returned"}
          /\ ust.calls = <<"super().__init__">>
          /\ ust.connection_pads = BasePads(uin)
          /\ \A name \in DOMAIN ust.connection_pads :
                PadOptionsOf(name) = uin.options[name]
          /\ ust.has_default_connection_pads = uin.template_has_defaults

\* C26 witness: a registered qubit with make true has been rebuilt after
\* the update and the defaults
C26_Witness ==
    /\ ust.pc = "returned"
    /\ ust.calls = <<"super().__init__", "connection_pads.update",
                     "_set_options_connection_pads", "rebuild">>

\* the values of a dict
ValuesOf(d) == {d[k] : k \in DOMAIN d}

\* C29: _set_options_connection_pads leaves the defaults of the template
\* unchanged and gives every pad an object of its own: no two pads, and no
\* pad and the template, share their options, so a later store into one
\* pad's options shows neither in the template nor in another pad
C29_OwnCopyPerPad ==
    /\ uin.template_has_defaults => ust.heap[0] = Defaults
    /\ (ust.pc \in {"applied", "returned", "stored"} /\ ust.status # "Not Built") =>
          \A name \in DOMAIN ust.connection_pads :
              /\ ust.connection_pads[name] # 0
              /\ \A other \in DOMAIN ust.connection_pads \ {name} :
                    ust.connection_pads[other] # ust.connection_pads[name]
    /\ ust.pc = "stored" =>
          \A other \in DOMAIN ust.connection_pads \ {ust.stored} :
              "stored" \notin ValuesOf(PadOptionsOf(other))

\* C29 witness: of two pads with the defaults only, one has been stored into
C29_Witness ==
    /\ ust.pc = "stored" /\ ust.stored = "a"
    /\ DOMAIN ust.connection_pads = {"a", "b"}
    /\ PadOptionsOf("a") = [k \in DefaultKeys |-> IF k = "x" THEN "stored" ELSE "default"]
    /\ PadOptionsOf("b") = Defaults

====
